---- MODULE Spec2Model ----
(***************************************************************************)
(* Digital-signage player: playlist resolution, duration resolution, the   *)
(* playback sequencer (advance timer, A/B video slots) and the command     *)
(* interpreter, modelled from the React player component and the server    *)
(* store.                                                                  *)
(*                                                                         *)
(* Conventions                                                             *)
(*  - durations are fixed-point seconds in thousandths (10 s = 10000), so  *)
(*    the 0.5 s pad and the 0.1 s floor are integers;                      *)
(*  - instants (now, startAt, endAt) are minutes since the epoch, local    *)
(*    time = UTC;                                                          *)
(*  - an optional field is a sequence of length 0 (absent) or more;        *)
(*    durationSeconds = 0 stands for an absent/invalid duration (the code  *)
(*    only ever tests "> 0").                                              *)
(*  - one handler = one action: the handler body, the React re-render it   *)
(*    causes and the effects of that render are one atomic step.           *)
(***************************************************************************)
EXTENDS Integers, Sequences, FiniteSets, TLC

VARIABLES
    build,            \* which player source is running: "route" or "page"
    mounted,          \* the PlayerPage component is mounted
    renderError,      \* a render threw (component torn down by React)
    files,            \* useState files
    schedules,        \* useState schedules
    activePlaylist,   \* useMemo([schedules]) value
    serverSettings,   \* useState serverSettings
    activeIndex,      \* useState activeIndex
    activeVideoTag,   \* useState activeVideoTag
    powered,          \* useState powered
    orientation,      \* useState orientation
    brightness,       \* useState brightness
    timers,           \* pending window.setTimeout(advance, ...) timers
    videoARef,        \* <video> element behind videoARef (null when unmounted)
    videoBRef,        \* <video> element behind videoBRef
    detached,         \* unmounted <video> elements that still hold listeners
    deps,             \* dependency arrays of the last committed render
    loads,            \* load() calls in flight
    now,              \* Date.now()
    store,            \* server store: files, schedules, playerSettings
    serverOps,        \* number of store mutations so far (bounded)
    commandCount,     \* number of commands delivered so far (bounded)
    label,            \* localStorage player_label
    net               \* connection side of the player: WebSocket, refs, polls

vars == << build, mounted, renderError, files, schedules, activePlaylist,
           serverSettings, activeIndex, activeVideoTag, powered, orientation,
           brightness, timers, videoARef, videoBRef, detached, deps, loads,
           now, store, serverOps, commandCount, label, net >>

playerVars == << mounted, renderError, files, schedules, activePlaylist,
                 serverSettings, activeIndex, activeVideoTag, powered,
                 orientation, brightness, timers, videoARef, videoBRef,
                 detached, deps, label >>

----------------------------------------------------------------------------
(* Bounds of the model *)

MaxServerOps == 1      \* store mutations per behaviour
MaxCommands == 2       \* commands delivered per behaviour
MaxLoads == 1          \* overlapping load() calls
MaxListeners == 2      \* listeners of one kind on one <video> element
MaxDetached == 1       \* unmounted <video> elements tracked

----------------------------------------------------------------------------
(* Generic helpers *)

Max(a, b) == IF a >= b THEN a ELSE b
Min(a, b) == IF a <= b THEN a ELSE b

Range(s) == { s[i] : i \in 1..Len(s) }

SortByOrderMutant(s) == s

RECURSIVE InsertSorted(_, _)
\* insert x after every element whose order is <= x.order (stable)
InsertSorted(x, s) ==
    IF s = << >> THEN << x >>
    ELSE IF Head(s).order <= x.order
         THEN << Head(s) >> \o InsertSorted(x, Tail(s))
         ELSE << x >> \o s

RECURSIVE SortByOrder(_)
\* Array.prototype.sort((a, b) => a.order - b.order): stable, ascending
SortByOrder(s) ==
    IF s = << >> THEN << >>
    ELSE InsertSorted(s[Len(s)], SortByOrder(SubSeq(s, 1, Len(s) - 1)))

Reverse(s) == [ i \in 1..Len(s) |-> s[Len(s) + 1 - i] ]

----------------------------------------------------------------------------
(* Playlist resolver (useMemo activePlaylist, useMemo displayList) *)

MinutesPerDay == 24 * 60
EpochWeekday == 4          \* 1970-01-01 was a Thursday (0 = Sunday)

\* new Date(now).getDay()
getDay(t) == ((t \div MinutesPerDay) + EpochWeekday) % 7

\* new Date(now).getHours() * 60 + new Date(now).getMinutes()
minuteOfDay(t) == t % MinutesPerDay

\* toMin("HH:MM"): t.split(":").map(Number); h * 60 + (m || 0)
toMin(t) == t[1] * 60 + (IF Len(t) >= 2 THEN t[2] ELSE 0)

inTimeWindow(mins, start, end) ==
    IF start = << >> /\ end = << >> THEN TRUE
    ELSE LET s == IF start # << >> THEN toMin(start) ELSE 0
             e == IF end # << >> THEN toMin(end) ELSE 24 * 60
         IN  mins >= s /\ mins <= e

InActiveWindowMutant(t, s) == t >= s.startAt /\ t < s.endAt

InActiveWindow(t, s) == t >= s.startAt /\ t <= s.endAt

PassesDays(t, s) == IF s.days # << >> THEN getDay(t) \in s.days[1] ELSE TRUE

PassesFilters(t, s) ==
    /\ InActiveWindow(t, s)
    /\ PassesDays(t, s)
    /\ inTimeWindow(minuteOfDay(t), s.startTime, s.endTime)

\* schedules.filter(...).filter(...).filter(...).sort(by order)
ActivePlaylistAt(t, scheds) ==
    SortByOrder(SelectSeq(scheds, LAMBDA s : PassesFilters(t, s)))

FallbackEntry(f) ==
    IF f.durationSeconds > 0
    THEN [ id |-> f.id, fileId |-> f.id, durationSeconds |-> f.durationSeconds ]
    ELSE [ id |-> f.id, fileId |-> f.id, durationSeconds |-> 0 ]

DisplayListOfMutant(ap, fs) == IF Len(fs) > 0 THEN [ i \in 1..Len(fs) |-> FallbackEntry(fs[i]) ] ELSE ap

\* displayList: the active playlist, or every file when it is empty
DisplayListOf(ap, fs) ==
    IF Len(ap) = 0 THEN [ i \in 1..Len(fs) |-> FallbackEntry(fs[i]) ] ELSE ap

----------------------------------------------------------------------------
(* Duration resolver *)

Sec(n) == n * 1000
MinDelay == 100                  \* Math.max(0.1, seconds)
SafetyPad == 500                 \* naturalDur + 0.5
UnknownVideoDuration == 30000    \* natural duration unavailable: 30
FallbackImageDuration == 10000   \* defaultImageDuration || 10
FallbackLinkDuration == 30000    \* defaultLinkDuration || 30
UnknownTypeDuration == 10000     \* unknown mime type: 10 s

OrDefault(v, d) == IF v # 0 THEN v ELSE d

\* route.ts player: schedule override, file override, global default
getEffectiveDuration(item, file, ss) ==
    IF item.durationSeconds > 0 THEN item.durationSeconds
    ELSE IF file.durationSeconds > 0 THEN file.durationSeconds
    ELSE IF file.mime = "image" THEN OrDefault(ss.defaultImageDuration, FallbackImageDuration)
    ELSE IF file.mime = "link" THEN OrDefault(ss.defaultLinkDuration, FallbackLinkDuration)
    ELSE UnknownTypeDuration

\* page.tsx player: schedule override or a fixed 10 s
DEFAULT_IMAGE_LINK_SEC(item) ==
    IF item.durationSeconds > 0 THEN item.durationSeconds ELSE 10000

\* delay of the timer armed for an image or a link
ImageLinkDelay(b, item, file, ss) ==
    IF b = "route" THEN Max(MinDelay, getEffectiveDuration(item, file, ss))
    ELSE DEFAULT_IMAGE_LINK_SEC(item)

setBackupDelayMutant(b, item, file, duration) ==
    IF item.durationSeconds > 0 THEN Max(MinDelay, item.durationSeconds)
    ELSE IF b = "route" /\ file.durationSeconds > 0 THEN Max(MinDelay, file.durationSeconds)
    ELSE IF duration > 0 THEN duration ELSE UnknownVideoDuration

\* delay of the timer armed by setBackup; duration = activeVideo.duration,
\* 0 when it is not a finite positive number
setBackupDelay(b, item, file, duration) ==
    IF item.durationSeconds > 0 THEN Max(MinDelay, item.durationSeconds)
    ELSE IF b = "route" /\ file.durationSeconds > 0 THEN Max(MinDelay, file.durationSeconds)
    ELSE (IF duration > 0 THEN duration ELSE UnknownVideoDuration) + SafetyPad

----------------------------------------------------------------------------
(* Content: five files, and the three rules of the sequencer model *)

\* mime class and content-level override of each file
FileCat(id) ==
    CASE id = 1 -> [ id |-> 1, mime |-> "image", durationSeconds |-> 0 ]
      [] id = 2 -> [ id |-> 2, mime |-> "video", durationSeconds |-> 0 ]
      [] id = 3 -> [ id |-> 3, mime |-> "video", durationSeconds |-> 0 ]
      [] id = 4 -> [ id |-> 4, mime |-> "link", durationSeconds |-> 7000 ]
      [] id = 5 -> [ id |-> 5, mime |-> "link", durationSeconds |-> 0 ]

\* natural length of a video as its decoder reports it; 0 = not a finite
\* positive number
NaturalDuration(id) == IF id = 2 THEN 12000 ELSE IF id = 3 THEN 8000 ELSE 0

Rule(id, fileId, order, dur) ==
    [ id |-> id, fileId |-> fileId, startAt |-> 0, endAt |-> 100000,
      order |-> order, days |-> << >>, startTime |-> << >>, endTime |-> << >>,
      durationSeconds |-> dur ]

RuleCat(id) ==
    CASE id = 1 -> Rule(1, 1, 0, 5000)
      [] id = 2 -> Rule(2, 1, 1, 3000)
      [] id = 3 -> Rule(3, 2, 1, 0)

NoFile == [ id |-> 0, mime |-> "none", durationSeconds |-> 0 ]

\* files.find(f => f.id === id)
FindFile(fs, id) ==
    IF \E i \in 1..Len(fs) : fs[i].id = id
    THEN fs[CHOOSE i \in 1..Len(fs) :
                /\ fs[i].id = id
                /\ \A j \in 1..(i - 1) : fs[j].id # id]
    ELSE NoFile

----------------------------------------------------------------------------
(* <video> elements *)

HAVE_NOTHING == 0
HAVE_METADATA == 1
HAVE_FUTURE_DATA == 3

NullEl == [ null |-> TRUE, src |-> 0, readyState |-> 0, ended |-> FALSE,
            paused |-> FALSE, onLoaded |-> << >>, onCanPlay |-> << >> ]

NewEl == [ NullEl EXCEPT !.null = FALSE ]

\* element.src = ...: a new resource load starts; listeners stay registered
\* (both tags carry autoPlay, so the new resource plays when it can)
SetSrc(el, id) ==
    [ el EXCEPT !.src = id, !.readyState = HAVE_NOTHING, !.ended = FALSE,
                !.paused = FALSE ]

\* element.duration, 0 when it is NaN or not finite
ElDuration(el) ==
    IF ~el.null /\ el.src # 0 /\ el.readyState >= HAVE_METADATA
    THEN NaturalDuration(el.src) ELSE 0

HasListeners(el) == el.onLoaded # << >> \/ el.onCanPlay # << >>

----------------------------------------------------------------------------
(* The player as one record: React state, refs, DOM and pending timers *)

P == [ build |-> build, mounted |-> mounted, renderError |-> renderError,
       files |-> files, schedules |-> schedules,
       activePlaylist |-> activePlaylist, serverSettings |-> serverSettings,
       activeIndex |-> activeIndex, activeVideoTag |-> activeVideoTag,
       powered |-> powered, orientation |-> orientation,
       brightness |-> brightness, label |-> label, timers |-> timers,
       videoARef |-> videoARef, videoBRef |-> videoBRef,
       detached |-> detached, deps |-> deps, overflow |-> FALSE ]

displayList(p) == DisplayListOf(p.activePlaylist, p.files)

\* what a function created during the render of p closes over
ClosureOf(p) ==
    [ activeIndex |-> p.activeIndex, displayList |-> displayList(p),
      files |-> p.files, activeVideoTag |-> p.activeVideoTag ]

Other(tag) == IF tag = "A" THEN "B" ELSE "A"

ElementAt(p, tag) == IF tag = "A" THEN p.videoARef ELSE p.videoBRef

PutElement(p, tag, el) ==
    IF tag = "A" THEN [ p EXCEPT !.videoARef = el ] ELSE [ p EXCEPT !.videoBRef = el ]

getActiveVideo(p, tag) == ElementAt(p, tag)
getIdleVideo(p, tag) == ElementAt(p, Other(tag))

clearAdvanceTimer(p) == [ p EXCEPT !.timers = { t \in @ : ~t.tracked } ]

\* advanceTimerRef.current = window.setTimeout(advance, delay): the ref now
\* names the new timer; a timer it named before is no longer reachable
\* (item, file, duration: what the delay was computed from)
ArmTimer(p, delay, adv, item, file, duration) ==
    [ p EXCEPT !.timers =
        { [ t EXCEPT !.tracked = FALSE ] : t \in @ }
        \cup { [ delay |-> delay, adv |-> adv, tracked |-> TRUE,
                 item |-> item, file |-> file, duration |-> duration ] } ]

\* preloadNext / ensureIdlePreloaded: put the video into the idle tag
preloadInto(p, tag, fs, fileId) ==
    LET f == FindFile(fs, fileId)
        idle == getIdleVideo(p, tag)
    IN  IF f.mime # "video" \/ idle.null \/ idle.src = f.id THEN p
        ELSE PutElement(p, Other(tag), SetSrc(idle, f.id))

\* makeActiveIdleSwitch(); setActiveIndex(idx)
SwitchTo(p, idx) ==
    [ p EXCEPT !.activeVideoTag = Other(@), !.activeIndex = idx ]

\* the common body of advance and goPrev for the target index idx
MoveTo(p, c, idx) ==
    LET target == FindFile(c.files, c.displayList[idx + 1].fileId) IN
    IF target.mime = "video"
    THEN LET p1 == preloadInto(p, c.activeVideoTag, c.files, target.id)
             idle == getIdleVideo(p1, c.activeVideoTag)
         IN  IF ~idle.null /\ idle.readyState >= HAVE_FUTURE_DATA
             THEN SwitchTo(p1, idx)
             ELSE IF ~idle.null
             THEN IF Len(idle.onCanPlay) >= MaxListeners
                  THEN [ p1 EXCEPT !.overflow = TRUE ]
                  ELSE PutElement(p1, Other(c.activeVideoTag),
                           [ idle EXCEPT !.onCanPlay = Append(@, idx) ])
             ELSE [ p1 EXCEPT !.activeIndex = idx ]
    ELSE [ p EXCEPT !.activeIndex = idx ]

\* advance, as created by the render that c closes over
advance(p, c) ==
    IF Len(c.displayList) = 0 THEN p
    ELSE MoveTo(p, c, (c.activeIndex + 1) % Len(c.displayList))

\* goPrev
goPrev(p, c) ==
    IF Len(c.displayList) = 0 THEN p
    ELSE MoveTo(p, c, (c.activeIndex - 1 + Len(c.displayList)) % Len(c.displayList))

----------------------------------------------------------------------------
(* Rendering: currentFile, mounting of the <video> pair, effects *)

\* displayList[activeIndex] as the dependency arrays read it (optional chaining)
ItemAt(dl, idx) ==
    IF idx + 1 <= Len(dl) THEN dl[idx + 1]
    ELSE [ id |-> 0, fileId |-> 0, durationSeconds |-> 0 ]

\* useMemo currentFile: null for an empty list; reads displayList[activeIndex].fileId
currentFile(p) ==
    IF Len(displayList(p)) = 0 THEN NoFile
    ELSE FindFile(p.files, displayList(p)[p.activeIndex + 1].fileId)

\* the currentFile memo dereferences an undefined entry: TypeError in render
RenderThrows(p) ==
    Len(displayList(p)) > 0 /\ p.activeIndex >= Len(displayList(p))

DepsOf(p) ==
    LET dl == displayList(p)
        it == ItemAt(dl, p.activeIndex)
        cf == IF RenderThrows(p) THEN NoFile ELSE currentFile(p)
    IN  [ timer |-> << p.activeIndex, Len(dl), p.powered, it.fileId, it.durationSeconds >>,
          reset |-> << cf.id, Len(dl) >>,
          resume |-> << p.powered, cf.id, p.activeVideoTag >> ]

\* the <video> pair leaves the document; elements with listeners live on
DetachVideos(p) ==
    LET els == SelectSeq(<< p.videoARef, p.videoBRef >>,
                         LAMBDA e : ~e.null /\ HasListeners(e))
        all == p.detached \o els
    IN  [ p EXCEPT !.videoARef = NullEl, !.videoBRef = NullEl,
                   !.detached = IF Len(all) > MaxDetached
                                THEN SubSeq(all, 1, MaxDetached) ELSE all,
                   !.overflow = @ \/ Len(all) > MaxDetached ]

\* the video pair is rendered only for: powered && currentFile is a video
CommitDom(p, cf) ==
    LET want == p.powered /\ cf.mime = "video" IN
    IF want /\ p.videoARef.null
    THEN [ p EXCEPT !.videoARef = NewEl, !.videoBRef = NewEl ]
    ELSE IF ~want /\ ~p.videoARef.null THEN DetachVideos(p)
    ELSE p

\* safePlay(video): play(); an ended video restarts from the beginning
safePlay(p, tag) ==
    LET el == ElementAt(p, tag) IN
    IF el.null THEN p
    ELSE PutElement(p, tag, [ el EXCEPT !.ended = FALSE, !.paused = FALSE ])

\* video?.pause()
pause(p, tag) ==
    LET el == ElementAt(p, tag) IN
    IF el.null THEN p ELSE PutElement(p, tag, [ el EXCEPT !.paused = TRUE ])

setBackupMutant(p, item, file, duration, adv) ==
    ArmTimer(p, setBackupDelay(p.build, item, file, duration), adv, item, file, duration)

\* setBackup, for the element whose duration is given
setBackup(p, item, file, duration, adv) ==
    ArmTimer(clearAdvanceTimer(p), setBackupDelay(p.build, item, file, duration),
             adv, item, file, duration)

TimerEffectMutant(p, cf) == p

\* the effect "When switching items, handle timers based on media type"
TimerEffect(p, cf) ==
    LET dl == displayList(p)
        c == ClosureOf(p)
        item == ItemAt(dl, p.activeIndex)
        next == ItemAt(dl, (p.activeIndex + 1) % Max(1, Len(dl)))
        p0 == clearAdvanceTimer(p)
    IN
    IF ~p.powered THEN p0
    ELSE IF Len(dl) = 0 THEN p0
    ELSE IF cf = NoFile THEN p0
    ELSE IF cf.mime \in { "image", "link" }
    THEN preloadInto(
             ArmTimer(p0, ImageLinkDelay(p.build, item, cf, p.serverSettings), c,
                      item, cf, 0),
             p.activeVideoTag, p.files, next.fileId)
    ELSE IF cf.mime = "video"
    THEN LET av == getActiveVideo(p0, p.activeVideoTag)
             av1 == IF av.src # cf.id THEN SetSrc(av, cf.id) ELSE av
             p1 == PutElement(p0, p.activeVideoTag, av1)
             p2 == IF av.null THEN p0
                   ELSE IF ElDuration(av1) > 0
                   THEN setBackup(p1, item, cf, ElDuration(av1), c)
                   ELSE IF Len(av1.onLoaded) >= MaxListeners
                   THEN [ p1 EXCEPT !.overflow = TRUE ]
                   ELSE PutElement(p1, p.activeVideoTag,
                            [ av1 EXCEPT !.onLoaded =
                                Append(@, [ item |-> item, file |-> cf, adv |-> c ]) ])
         IN  IF av.null THEN p0
             ELSE preloadInto(safePlay(p2, p.activeVideoTag),
                              p.activeVideoTag, p.files, next.fileId)
    ELSE ArmTimer(p0, UnknownTypeDuration, c, item, cf, 0)

\* the effect "if current file was removed, jump to next available"
ResetEffect(p, cf) ==
    IF Len(displayList(p)) > 0 /\ cf = NoFile
    THEN [ p EXCEPT !.activeIndex = 0 ] ELSE p

\* the effect "Auto-resume playback on Power On for video items"
ResumeEffect(p, cf) ==
    IF p.powered /\ cf.mime = "video" THEN safePlay(p, p.activeVideoTag) ELSE p

\* unmount: cleanup of the effects (clearAdvanceTimer), DOM removed
Unmount(p, err) ==
    [ DetachVideos(clearAdvanceTimer(p)) EXCEPT !.mounted = FALSE, !.renderError = err ]

RECURSIVE Render(_, _)
\* re-render after a state change and run the effects whose dependencies
\* changed; fresh = the files array was replaced (currentFile is a new object)
Render(p, fresh) ==
    IF ~p.mounted THEN p
    ELSE IF RenderThrows(p) THEN Unmount(p, TRUE)
    ELSE
      LET cf == currentFile(p)
          d == DepsOf(p)
          p1 == CommitDom(p, cf)
          p2 == IF d.timer # p.deps.timer THEN TimerEffect(p1, cf) ELSE p1
          \* effects of one commit all see the state of that render
          p3 == IF d.reset # p.deps.reset
                THEN [ p2 EXCEPT !.activeIndex = ResetEffect(p1, cf).activeIndex ]
                ELSE p2
          p4 == IF d.resume # p.deps.resume \/ fresh
                THEN ResumeEffect(p3, cf) ELSE p3
          p5 == [ p4 EXCEPT !.deps = d ]
      IN  IF p5.activeIndex # p.activeIndex THEN Render(p5, FALSE) ELSE p5

----------------------------------------------------------------------------
(* Handlers as functions on the player record *)

\* state updates of an unmounted component are dropped by React
AfterHandler(p, q, fresh) ==
    IF p.mounted THEN Render(q, fresh)
    ELSE [ q EXCEPT !.files = p.files, !.schedules = p.schedules,
                    !.activePlaylist = p.activePlaylist,
                    !.serverSettings = p.serverSettings,
                    !.activeIndex = p.activeIndex,
                    !.activeVideoTag = p.activeVideoTag,
                    !.powered = p.powered, !.orientation = p.orientation,
                    !.brightness = p.brightness ]

\* the closure of the first render, captured by the mount effect (deps [])
MountClosure ==
    [ activeIndex |-> 0, displayList |-> << >>, files |-> << >>, activeVideoTag |-> "A" ]

NaN == -1000000

\* Math.max(0, Math.min(200, Number(value))): NaN propagates
\* Number(msg.value) for the values a message carries
Number(v) ==
    CASE v = "50" -> 50
      [] v = "250" -> 250
      [] OTHER -> NaN

\* Math.max(0, Math.min(200, v))
ClampBrightness(v) == IF v = NaN THEN NaN ELSE Max(0, Min(200, v))

PowerCommandMutant(p, value) ==
    IF p.powered THEN clearAdvanceTimer(pause([ p EXCEPT !.powered = FALSE ], "A"))
    ELSE safePlay([ p EXCEPT !.powered = TRUE ], "A")

\* applyCommand, msg.action === 'power'
PowerCommand(p, value) ==
    LET turnOn == value # "off" IN
    IF ~turnOn
    THEN clearAdvanceTimer(pause([ p EXCEPT !.powered = FALSE ],
                                 MountClosure.activeVideoTag))
    ELSE safePlay([ p EXCEPT !.powered = TRUE ], MountClosure.activeVideoTag)

applyCommandUntyped(p, msg) ==
    IF msg.action = "power" THEN PowerCommand(p, msg.value) ELSE p

applyCommandMutant(p, msg) ==
    IF msg.type # "command" THEN p
    ELSE IF msg.action = "next" THEN advance(p, ClosureOf(p))
    ELSE IF msg.action = "prev" THEN goPrev(p, ClosureOf(p))
    ELSE p

\* applyCommand(msg) as captured by ws.onmessage and the polling interval
applyCommand(p, msg) ==
    IF msg.type # "command" THEN p
    ELSE IF msg.action = "power" THEN PowerCommand(p, msg.value)
    ELSE IF msg.action = "orientation"
    THEN [ p EXCEPT !.orientation = IF msg.value = "portrait" THEN "portrait" ELSE "landscape" ]
    ELSE IF msg.action = "set_label" THEN [ p EXCEPT !.label = msg.value ]
    ELSE IF msg.action = "stop" THEN pause(p, MountClosure.activeVideoTag)
    ELSE IF msg.action = "brightness"
    THEN [ p EXCEPT !.brightness = ClampBrightness(Number(msg.value)) ]
    ELSE IF msg.action = "next" THEN advance(p, MountClosure)
    ELSE IF msg.action = "prev" THEN goPrev(p, MountClosure)
    ELSE p

OnCommand(p, msg) == AfterHandler(p, applyCommand(p, msg), FALSE)

\* the advance timer t expires
OnTimer(p, t) ==
    AfterHandler(p, advance([ p EXCEPT !.timers = @ \ { t } ], t.adv), FALSE)

RECURSIVE RunOnLoaded(_, _, _)
\* the 'loadedmetadata' listeners registered by the timer effect, in order
RunOnLoaded(p, ls, duration) ==
    IF ls = << >> THEN p
    ELSE RunOnLoaded(setBackup(p, Head(ls).item, Head(ls).file, duration, Head(ls).adv),
                     Tail(ls), duration)

RECURSIVE RunOnCanPlay(_, _)
\* the 'canplay' listeners registered by advance/goPrev, in order
RunOnCanPlay(p, ls) ==
    IF ls = << >> THEN p ELSE RunOnCanPlay(SwitchTo(p, Head(ls)), Tail(ls))

\* where a <video> element lives: slot "A" or "B" of the page, or position i
\* of the detached elements (slot "D")
Slot(tag) == [ slot |-> tag, i |-> 0 ]

ElementOf(p, loc) ==
    IF loc.slot = "D" THEN p.detached[loc.i] ELSE ElementAt(p, loc.slot)

StoreElement(p, loc, el) ==
    IF loc.slot # "D" THEN PutElement(p, loc.slot, el)
    ELSE IF HasListeners(el) THEN [ p EXCEPT !.detached[loc.i] = el ]
    ELSE [ p EXCEPT !.detached =
             SubSeq(@, 1, loc.i - 1) \o SubSeq(@, loc.i + 1, Len(@)) ]

Locations(p) ==
    { Slot("A"), Slot("B") } \cup { [ slot |-> "D", i |-> i ] : i \in 1..Len(p.detached) }

CanLoadMetadata(el) == ~el.null /\ el.src # 0 /\ el.readyState = HAVE_NOTHING

OnLoadedMetadata(p, loc) ==
    LET el == [ ElementOf(p, loc) EXCEPT !.readyState = HAVE_METADATA ]
        p1 == StoreElement(p, loc, [ el EXCEPT !.onLoaded = << >> ])
    IN  AfterHandler(p, RunOnLoaded(p1, el.onLoaded, ElDuration(el)), FALSE)

CanCanPlay(el) == ~el.null /\ el.src # 0 /\ el.readyState = HAVE_METADATA

\* the element at loc reaches HAVE_FUTURE_DATA and dispatches 'canplay': the
\* once-listeners are taken off, and tag A runs its JSX handler
\* (if (activeVideoTag === 'A') safePlay(A))
CanPlayFired(p, loc) ==
    LET el == [ ElementOf(p, loc) EXCEPT !.readyState = HAVE_FUTURE_DATA ]
        p1 == StoreElement(p, loc, [ el EXCEPT !.onCanPlay = << >> ])
    IN  IF loc.slot = "A" /\ p.activeVideoTag = "A" THEN safePlay(p1, "A") ELSE p1

OnCanPlay(p, loc) ==
    AfterHandler(p, RunOnCanPlay(CanPlayFired(p, loc), ElementOf(p, loc).onCanPlay), FALSE)

\* the visible video plays to its end: onEnded = handleActiveEnded
CanEnd(p) ==
    LET el == getActiveVideo(p, p.activeVideoTag) IN
    p.mounted /\ p.powered /\ ~el.null /\ el.src # 0
    /\ el.readyState >= HAVE_FUTURE_DATA /\ ~el.ended /\ ~el.paused

OnEnded(p) ==
    LET el == getActiveVideo(p, p.activeVideoTag)
        p1 == PutElement(p, p.activeVideoTag, [ el EXCEPT !.ended = TRUE ])
    IN  AfterHandler(p, advance(p1, ClosureOf(p)), FALSE)

----------------------------------------------------------------------------
(* Server store and load() *)

\* GET /api/files: Array.from(store.files.values()) sorted by uploadedAt, newest first
GetFiles(st) == Reverse([ i \in 1..Len(st.files) |-> FileCat(st.files[i]) ])

GetSchedulesMutant(st) == Reverse(st.schedules)

\* GET /api/schedule: store.schedules values sorted by order
GetSchedules(st) == SortByOrder(st.schedules)

\* store.json and the upload directory as the server process sees them:
\* saved is the last snapshot written (<< >> while no store.json exists),
\* unlinked the uploaded files removed from disk, saveTimeout the number of
\* save timers armed and not yet fired, loading the pending loadStoreFromDisk()
DefaultPassword == "aiarkp@123"

\* (a store also holds the bearer tokens issued by logins, "t1" being the
\* token of the operator's session, the admin password, and denied: the error
\* of the last response if it was a 401)
NoPersistence ==
    [ saved |-> << >>, unlinked |-> { }, saveTimeout |-> 0, loading |-> FALSE ]

\* scheduleSave without the clearTimeout
scheduleSaveMutant(st) == [ st EXCEPT !.persistence.saveTimeout = @ + 1 ]

\* scheduleSave: if (saveTimeout) clearTimeout(saveTimeout) cancels the timer
\* armed by the previous call, then setTimeout arms a new one
scheduleSave(st) ==
    [ st EXCEPT !.persistence.saveTimeout = (IF @ > 0 THEN @ - 1 ELSE 0) + 1 ]

removeFileMutant(st, id) ==
    IF id \in Range(st.files)
    THEN scheduleSave([ st EXCEPT !.files = SelectSeq(@, LAMBDA f : f # id) ])
    ELSE st

\* removeFile: delete the file and, when it existed, every schedule that
\* references it
removeFile(st, id) ==
    IF id \in Range(st.files)
    THEN scheduleSave([ st EXCEPT !.files = SelectSeq(@, LAMBDA f : f # id),
                                 !.schedules = SelectSeq(@, LAMBDA s : s.fileId # id) ])
    ELSE st

\* fs.promises.unlink(item.path) for a file that is stored on this server
unlink(st, id) ==
    IF FileCat(id).mime # "link"
    THEN [ st EXCEPT !.persistence.unlinked = @ \cup { id } ]
    ELSE st

\* load(): the part of the state written when the three responses are in
OnLoadDone(p, t, l) ==
    LET q == [ p EXCEPT !.files = l.files, !.schedules = l.schedules,
                        !.activePlaylist = ActivePlaylistAt(t, l.schedules),
                        !.brightness = l.settings.brightness,
                        !.orientation = l.settings.orientation,
                        !.serverSettings = l.settings ]
    IN  AfterHandler(p, q, TRUE)

----------------------------------------------------------------------------
(* Actions of the sequencer specification *)

PlayerNow == 1000      \* an instant inside every rule window of RuleCat

DefaultSettings ==
    [ brightness |-> 100, orientation |-> "landscape", autoStart |-> TRUE,
      defaultImageDuration |-> Sec(10), defaultLinkDuration |-> Sec(30) ]

\* assign the player record q to the variables
SetP(q) ==
    /\ ~q.overflow
    /\ mounted' = q.mounted
    /\ renderError' = q.renderError
    /\ files' = q.files
    /\ schedules' = q.schedules
    /\ activePlaylist' = q.activePlaylist
    /\ serverSettings' = q.serverSettings
    /\ activeIndex' = q.activeIndex
    /\ activeVideoTag' = q.activeVideoTag
    /\ powered' = q.powered
    /\ orientation' = q.orientation
    /\ brightness' = q.brightness
    /\ label' = q.label
    /\ timers' = q.timers
    /\ videoARef' = q.videoARef
    /\ videoBRef' = q.videoBRef
    /\ detached' = q.detached
    /\ deps' = q.deps
    /\ UNCHANGED << build, now >>

\* the command channel of a player mounted at instant t: lastCmdTsRef starts
\* at Date.now() when localStorage holds no timestamp, lastRefreshTimeRef at
\* 0 (recent: a refresh ran in the last 5 s), polls are the /api/commands
\* responses in flight, commands the server's queue of posted commands,
\* refreshes the {type:'refresh'} messages in flight on the socket, sent the
\* number broadcast so far. owed
\* records the last notification received: "covered" while a load() started
\* at or after it is in flight, "uncovered" when none is, "none" once such a
\* load has completed
\* ws is the state of the socket wsRef.current refers to ("none" for null,
\* "connecting", "open"), orphans the numbers of sockets that are connecting
\* or open and that wsRef no longer refers to, reconnectTimer the pending
\* timer of scheduleReconnect
InitialNet(t) ==
    [ ws |-> "open", orphans |-> [ connecting |-> 0, open |-> 0 ],
      reconnectTimer |-> FALSE,
      lastCmdTs |-> t, recent |-> FALSE, polls |-> << >>,
      commands |-> << >>, refreshes |-> 0, sent |-> 0, owed |-> "none" ]

\* scheduleReconnect of the mount effect; stopped is set by its cleanup
scheduleReconnect(n, stopped) ==
    IF stopped THEN n ELSE [ n EXCEPT !.reconnectTimer = TRUE ]

\* connect: a new WebSocket, and wsRef.current = ws; the socket wsRef
\* referred to before is neither closed nor remembered
connect(n, stopped) ==
    IF stopped THEN n
    ELSE [ n EXCEPT !.ws = "connecting",
                    !.orphans = IF n.ws = "none" THEN @
                                ELSE [ @ EXCEPT ![n.ws] = @ + 1 ] ]

\* setLastCmdTs: lastCmdTsRef.current = ts
setLastCmdTs(n, ts) == [ n EXCEPT !.lastCmdTs = ts ]

\* state of a freshly mounted player (first render: nothing loaded yet)
InitialPlayer(b) ==
    [ build |-> b, mounted |-> TRUE, renderError |-> FALSE,
      files |-> << >>, schedules |-> << >>, activePlaylist |-> << >>,
      serverSettings |-> DefaultSettings, activeIndex |-> 0,
      activeVideoTag |-> "A", powered |-> TRUE, orientation |-> "landscape",
      brightness |-> 100, label |-> "", timers |-> { }, videoARef |-> NullEl,
      videoBRef |-> NullEl, detached |-> << >>,
      deps |-> [ timer |-> << 0, 0, TRUE, 0, 0 >>, reset |-> << 0, 0 >>,
                 resume |-> << TRUE, 0, "A" >> ],
      overflow |-> FALSE ]

FullStore ==
    [ files |-> << 1, 2, 3 >>, schedules |-> << >>, playerSettings |-> DefaultSettings,
      persistence |-> NoPersistence,
      tokens |-> { "t1" }, adminPassword |-> DefaultPassword, denied |-> "" ]

ScheduledStore ==
    [ FullStore EXCEPT !.schedules = << RuleCat(1), RuleCat(2), RuleCat(3) >> ]

InitPlayer ==
    /\ build \in { "route", "page" }
    /\ mounted = TRUE /\ renderError = FALSE
    /\ files = << >> /\ schedules = << >> /\ activePlaylist = << >>
    /\ serverSettings = DefaultSettings
    /\ activeIndex = 0 /\ activeVideoTag = "A" /\ powered = TRUE
    /\ orientation = "landscape" /\ brightness = 100 /\ label = ""
    /\ timers = { } /\ videoARef = NullEl /\ videoBRef = NullEl
    /\ detached = << >>
    /\ deps = InitialPlayer(build).deps
    /\ loads = << >>
    /\ now = PlayerNow
    /\ store \in { FullStore, ScheduledStore }
    /\ serverOps = 0
    /\ commandCount = 0
    /\ net = InitialNet(now)

\* ws.onmessage: a message reaches applyCommand; a command is recorded as
\* processed at the current time
Command(msg) ==
    /\ mounted
    /\ net.ws = "open"
    /\ commandCount < MaxCommands
    /\ commandCount' = commandCount + 1
    /\ SetP(OnCommand(P, msg))
    /\ net' = IF msg.type = "command" THEN setLastCmdTs(net, now) ELSE net
    /\ UNCHANGED << loads, store, serverOps >>

PowerMessages ==
    { [ type |-> "command", action |-> "power", value |-> v ] : v \in { "on", "off" } }

Power == \E msg \in PowerMessages : Command(msg)

SkipMessages ==
    { [ type |-> "command", action |-> a, value |-> "" ] : a \in { "next", "prev" } }

\* a next or prev command
Skip == \E msg \in SkipMessages : Command(msg)

OrientationMessages ==
    { [ type |-> "command", action |-> "orientation", value |-> v ] :
        v \in { "portrait", "landscape" } }

Orientation == \E msg \in OrientationMessages : Command(msg)

\* the values brightness messages carry
BrightnessValues == { "50", "250", "abc" }

BrightnessMessages ==
    { [ type |-> "command", action |-> "brightness", value |-> v ] :
        v \in BrightnessValues }

Brightness == \E msg \in BrightnessMessages : Command(msg)

SetLabelMessages ==
    { [ type |-> "command", action |-> "set_label", value |-> "Lobby" ] }

SetLabel == \E msg \in SetLabelMessages : Command(msg)

StopMessages == { [ type |-> "command", action |-> "stop", value |-> "" ] }

Stop == \E msg \in StopMessages : Command(msg)

\* a message of another type that carries an action, and a command whose
\* action the interpreter does not know
MalformedMessages ==
    { [ type |-> "heartbeat", action |-> "power", value |-> "off" ],
      [ type |-> "command", action |-> "reboot", value |-> "now" ] }

Malformed == \E msg \in MalformedMessages : Command(msg)

CommandMessages ==
    PowerMessages \cup SkipMessages \cup OrientationMessages
    \cup BrightnessMessages \cup SetLabelMessages \cup StopMessages

\* the advance timer fires
TimerFires ==
    \E t \in timers :
        /\ SetP(OnTimer(P, t))
        /\ UNCHANGED << loads, store, serverOps, commandCount, net >>

\* 'loadedmetadata' on a <video> element
LoadedMetadata ==
    \E loc \in Locations(P) :
        /\ CanLoadMetadata(ElementOf(P, loc))
        /\ SetP(OnLoadedMetadata(P, loc))
        /\ UNCHANGED << loads, store, serverOps, commandCount, net >>

\* 'canplay' on a <video> element
CanPlay ==
    \E loc \in Locations(P) :
        /\ CanCanPlay(ElementOf(P, loc))
        /\ SetP(OnCanPlay(P, loc))
        /\ UNCHANGED << loads, store, serverOps, commandCount, net >>

\* 'ended' on the visible <video> element
Ended ==
    /\ CanEnd(P)
    /\ SetP(OnEnded(P))
    /\ UNCHANGED << loads, store, serverOps, commandCount, net >>

\* the page is left: React unmounts PlayerPage and runs the effect cleanups
\* (mount effect: stopped = true, the reconnect timer is cleared,
\* wsRef.current is closed and set to null)
Unmounts ==
    /\ mounted
    /\ SetP(Unmount(P, FALSE))
    /\ net' = [ net EXCEPT !.reconnectTimer = FALSE, !.ws = "none" ]
    /\ UNCHANGED << loads, store, serverOps, commandCount >>

\* load() starts its three fetches; the schedules response is produced now
StartLoad ==
    /\ mounted
    /\ Len(loads) < MaxLoads
    /\ loads' = Append(loads, [ schedules |-> GetSchedules(store), stale |-> FALSE ])
    /\ net' = [ net EXCEPT !.owed = IF @ = "uncovered" THEN "covered" ELSE @ ]
    /\ UNCHANGED << build, playerVars, now, store, serverOps, commandCount >>

\* load() finishes: the files and settings responses are produced and the
\* state is set
\* (the responses of overlapping calls arrive in any order; stale records
\* that a call started later has already completed)
LoadDone ==
    \E i \in 1..Len(loads) :
    /\ LET r == [ files |-> GetFiles(store),
                  schedules |-> loads[i].schedules,
                  settings |-> store.playerSettings ]
       IN  SetP(OnLoadDone(P, now, r))
    /\ loads' = [ k \in 1..(i - 1) |-> [ loads[k] EXCEPT !.stale = TRUE ] ]
                 \o SubSeq(loads, i + 1, Len(loads))
    /\ net' = [ net EXCEPT !.owed = IF @ = "covered" THEN "none" ELSE @ ]
    /\ UNCHANGED << store, serverOps, commandCount >>

ServerStep(st) ==
    /\ serverOps < MaxServerOps
    /\ serverOps' = serverOps + 1
    /\ store' = st
    /\ UNCHANGED << build, playerVars, loads, now, commandCount, net >>

authMutant(st, token) == TRUE

\* auth(req) of every mutating route: the Authorization header carries a
\* bearer token of store.tokens ("" stands for no header)
auth(st, token) == token # "" /\ token \in st.tokens

\* a mutating route: 401 Unauthorized unless auth(req), else the handler's
\* result r
Authorized(st, token, r) ==
    IF auth(st, token) THEN [ r EXCEPT !.denied = "" ]
    ELSE [ st EXCEPT !.denied = "Unauthorized" ]

\* POST /api/auth/login: the master keyword resets the admin password; a
\* wrong or missing password gets 401, else a token is issued
login(st, password) ==
    LET isMaster == password = "anjuman"
        st1 == IF isMaster THEN [ st EXCEPT !.adminPassword = DefaultPassword ] ELSE st
    IN  IF password = "" \/ (password # st1.adminPassword /\ ~isMaster)
        THEN [ st1 EXCEPT !.denied = "Invalid credentials" ]
        ELSE [ st1 EXCEPT !.tokens = @ \cup { "t1" }, !.denied = "" ]

Login ==
    \E password \in { DefaultPassword, "anjuman", "wrong", "" } :
        ServerStep(login(store, password))

\* DELETE /api/files/[id], sent with a token of the operator's session
DeleteFile ==
    \E id \in Range(store.files), token \in store.tokens :
        ServerStep(Authorized(store, token, removeFile(unlink(store, id), id)))

NextPlayer ==
    \/ Power
    \/ Skip
    \/ Orientation
    \/ Brightness
    \/ SetLabel
    \/ Stop
    \/ Malformed
    \/ TimerFires
    \/ LoadedMetadata
    \/ CanPlay
    \/ Ended
    \/ StartLoad
    \/ LoadDone
    \/ DeleteFile

Spec == InitPlayer /\ [][NextPlayer]_vars

----------------------------------------------------------------------------
(* Resolver specification: the same player, started against a store whose *)
(* rules exercise every filter and every duration tier, at several instants *)

\* a schedule rule with every optional field
FullRule(id, fileId, startAt, endAt, order, days, startTime, endTime, dur) ==
    [ id |-> id, fileId |-> fileId, startAt |-> startAt, endAt |-> endAt,
      order |-> order, days |-> days, startTime |-> startTime,
      endTime |-> endTime, durationSeconds |-> dur ]

ResolverRuleIds == 1..7

ResolverRule(id) ==
    CASE id = 1 -> FullRule(1, 1, 0, 100000, 0, << >>, << >>, << >>, 0)
      [] id = 2 -> FullRule(2, 1, 600, 1020, 1, << >>, << >>, << >>, 5000)
      [] id = 3 -> FullRule(3, 2, 0, 100000, 0, << {4} >>, << >>, << >>, 0)
      [] id = 4 -> FullRule(4, 2, 0, 100000, 1, << >>, << 9, 0 >>, << 17, 0 >>, 50)
      [] id = 5 -> FullRule(5, 4, 0, 100000, 0, << {5, 6} >>, << 10, 0 >>, << >>, 10000)
      [] id = 6 -> FullRule(6, 5, 0, 100000, 2, << >>, << >>, << 9, 0 >>, 3000)
      [] id = 7 -> FullRule(7, 2, 0, 100000, 3, << >>, << >>, << >>, 20000)

\* Thu 00:00, Thu 09:00, Thu 10:00, Thu 17:00, Thu 17:01, Fri 09:00, Fri 10:00
ResolverInstants == { 0, 540, 600, 1020, 1021, 1980, 2040 }

CustomSettings ==
    [ DefaultSettings EXCEPT !.defaultImageDuration = Sec(20),
                             !.defaultLinkDuration = Sec(15) ]

ResolverSchedules ==
    { << >> }
    \cup { << ResolverRule(a) >> : a \in ResolverRuleIds }
    \cup { << ResolverRule(ab[1]), ResolverRule(ab[2]) >> :
             ab \in { x \in ResolverRuleIds \X ResolverRuleIds : x[1] # x[2] } }

ResolverStores ==
    { [ files |-> f, schedules |-> s, playerSettings |-> ps,
        persistence |-> NoPersistence,
      tokens |-> { "t1" }, adminPassword |-> DefaultPassword, denied |-> "" ] :
        f \in { << >>, << 1, 2, 4, 5 >> },
        s \in ResolverSchedules,
        ps \in { DefaultSettings, CustomSettings } }

InitResolve ==
    /\ build \in { "route", "page" }
    /\ mounted = TRUE /\ renderError = FALSE
    /\ files = << >> /\ schedules = << >> /\ activePlaylist = << >>
    /\ serverSettings = DefaultSettings
    /\ activeIndex = 0 /\ activeVideoTag = "A" /\ powered = TRUE
    /\ orientation = "landscape" /\ brightness = 100 /\ label = ""
    /\ timers = { } /\ videoARef = NullEl /\ videoBRef = NullEl
    /\ detached = << >>
    /\ deps = InitialPlayer(build).deps
    /\ loads = << >>
    /\ now \in ResolverInstants
    /\ store \in ResolverStores
    /\ serverOps = 0
    /\ commandCount = 0
    /\ net = InitialNet(now)

NextResolve ==
    \/ TimerFires
    \/ LoadedMetadata
    \/ CanPlay
    \/ Ended
    \/ StartLoad
    \/ LoadDone

SpecResolve == InitResolve /\ [][NextResolve]_vars

----------------------------------------------------------------------------
(* Idle specification: the same player against a small registry whose *)
(* files are removed and uploaded, so that the display list empties and *)
(* fills again *)

MaxIdleOps == 3        \* registry operations of the idle specification

\* fs.promises.writeFile(filePath, buffer) of an upload
writeFile(st, id) == [ st EXCEPT !.persistence.unlinked = @ \ { id } ]

\* addFile: store.files.set(file.id, file)
addFile(st, id) == scheduleSave([ st EXCEPT !.files = Append(@, id) ])

IdleStore ==
    [ files |-> << 1, 2 >>, schedules |-> << >>, playerSettings |-> DefaultSettings,
      persistence |-> NoPersistence,
      tokens |-> { "t1" }, adminPassword |-> DefaultPassword, denied |-> "" ]

\* files the operator uploads; ids are issued in increasing order
UploadCat == { 3 }

\* POST /api/files once files were removed
UploadFile ==
    \E id \in UploadCat :
        /\ Len(store.files) < Len(IdleStore.files)
        /\ \A f \in Range(store.files) : f < id
        /\ \E token \in store.tokens :
               ServerStep(Authorized(store, token, addFile(writeFile(store, id), id)))

InitIdle ==
    /\ build \in { "route", "page" }
    /\ mounted = TRUE /\ renderError = FALSE
    /\ files = << >> /\ schedules = << >> /\ activePlaylist = << >>
    /\ serverSettings = DefaultSettings
    /\ activeIndex = 0 /\ activeVideoTag = "A" /\ powered = TRUE
    /\ orientation = "landscape" /\ brightness = 100 /\ label = ""
    /\ timers = { } /\ videoARef = NullEl /\ videoBRef = NullEl
    /\ detached = << >>
    /\ deps = InitialPlayer(build).deps
    /\ loads = << >>
    /\ now = PlayerNow
    /\ store = IdleStore
    /\ serverOps = MaxServerOps - MaxIdleOps
    /\ commandCount = 0
    /\ net = InitialNet(now)

NextIdle ==
    \/ TimerFires
    \/ LoadedMetadata
    \/ CanPlay
    \/ Ended
    \/ StartLoad
    \/ LoadDone
    \/ DeleteFile
    \/ UploadFile
    \/ Unmounts

SpecIdle == InitIdle /\ [][NextIdle]_vars

----------------------------------------------------------------------------
(* Properties *)

\* C1: in every reachable state of the player at most one advance timer is
\* pending; arming a timer always clears the one armed before.
C1_AtMostOneTimer == Cardinality(timers) <= 1

\* a timer is pending for an entry that the player advanced to, so the timer
\* of the entry before it had to be replaced
C1_Witness ==
    \E t \in timers : t.tracked /\ t.adv.activeIndex > 0 /\ activeIndex = t.adv.activeIndex

\* the rule predicate of the playlist resolver as the specification states it
ClockMinutes(t) == t[1] * 60 + t[2]

RulePasses(t, r) ==
    /\ r.startAt <= t /\ t <= r.endAt
    /\ (r.days = << >> \/ getDay(t) \in r.days[1])
    /\ \/ (r.startTime = << >> /\ r.endTime = << >>)
       \/ /\ (r.startTime # << >> => ClockMinutes(r.startTime) <= minuteOfDay(t))
          /\ (r.endTime # << >> => minuteOfDay(t) <= ClockMinutes(r.endTime))

\* C2: a rule of the loaded schedule is in the filtered (active) list exactly
\* when startAt <= T <= endAt, its day-of-week set is unset or contains the
\* weekday of T, and its daily clock window is unset or contains the
\* minute-of-day of T.
C2_FilterIff ==
    \A i \in 1..Len(schedules) :
        (\E j \in 1..Len(activePlaylist) : activePlaylist[j] = schedules[i])
            <=> RulePasses(now, schedules[i])

\* two rules are loaded at the last instant of the absolute window of one of
\* them; that one passes and the other is rejected by its day-of-week set
C2_Witness ==
    /\ Len(schedules) = 2 /\ Len(activePlaylist) = 1
    /\ activePlaylist[1].endAt = now
    /\ \E i \in 1..2 : schedules[i].days # << >> /\ ~RulePasses(now, schedules[i])

\* the duration the duration resolver is specified to produce
ClaimedDuration(item, file, ss, natural) ==
    IF item.durationSeconds > 0 THEN item.durationSeconds
    ELSE IF file.durationSeconds > 0 THEN file.durationSeconds
    ELSE IF file.mime = "image" THEN ss.defaultImageDuration
    ELSE IF file.mime = "link" THEN ss.defaultLinkDuration
    ELSE natural + 500

\* C3: every advance timer is armed with the schedule-level override when it
\* is positive, else the content-level override when it is positive, else the
\* global default of the type for an image or a link and the natural length
\* plus 0.5 s for a video (whose natural length is known).
C3_DurationPrecedence ==
    \A t \in timers :
        (t.file.mime = "video" /\ t.item.durationSeconds = 0
            /\ t.file.durationSeconds = 0 => t.duration > 0)
        => t.delay = ClaimedDuration(t.item, t.file, store.playerSettings, t.duration)

\* C4: whenever the display list is non-empty the invariant
\* 0 <= activeIndex < length holds, or is restored by a reset to 0, and no
\* render reads past the end of the list (no error is raised).
C4_IndexInBounds ==
    /\ ~renderError
    /\ (mounted /\ Len(displayList(P)) > 0) => activeIndex < Len(displayList(P))

\* the entry at the current position names a file that is not in files
CurrentEntryDangling ==
    /\ mounted
    /\ activeIndex < Len(displayList(P))
    /\ FindFile(files, displayList(P)[activeIndex + 1].fileId) = NoFile

\* C5: when the current display entry references a fileId that is not in
\* files, the player has reset activeIndex to 0, and it raised no error.
C5_DanglingResetsToZero == CurrentEntryDangling => (activeIndex = 0 /\ ~renderError)

\* what C6 says the display list is, from the rules that pass at `now`
PassingRules == { i \in 1..Len(schedules) : RulePasses(now, schedules[i]) }

\* C6: the display list is the filtered, order-sorted rule list whenever at
\* least one rule passes; it is the list of all content items (each with its
\* own positive durationSeconds) exactly when no rule passes; it is empty only
\* when no rule passes and there is no content item at all.
C6_FallbackIff ==
    LET dl == displayList(P) IN
    /\ PassingRules # { } =>
          /\ Len(dl) = Cardinality(PassingRules)
          /\ Range(dl) = { schedules[i] : i \in PassingRules }
          /\ \A i \in 1..(Len(dl) - 1) : dl[i].order <= dl[i + 1].order
    /\ PassingRules = { } =>
          /\ Len(dl) = Len(files)
          /\ \A i \in 1..Len(dl) :
                /\ dl[i].fileId = files[i].id
                /\ files[i].durationSeconds > 0 =>
                       dl[i].durationSeconds = files[i].durationSeconds
    /\ dl = << >> <=> (PassingRules = { } /\ files = << >>)

\* rules are loaded, none passes at `now`, and the list is every file
C6_Witness ==
    /\ Len(schedules) > 0 /\ PassingRules = { }
    /\ Len(files) > 0 /\ Len(displayList(P)) = Len(files)
    /\ \E i \in 1..Len(files) : displayList(P)[i].durationSeconds > 0

\* C7: while powered is false no advance timer is pending.
C7_NoTimerWhilePoweredOff == ~powered => timers = { }

\* C8: while powered is false, activeIndex and the visible slot do not change
\* on a timer expiry, an 'ended' event or a 'canplay' event.
C8_FrozenWhilePoweredOff ==
    [][ (~powered /\ ~powered' /\ (TimerFires \/ Ended \/ CanPlay))
          => (activeIndex' = activeIndex /\ activeVideoTag' = activeVideoTag) ]_vars

\* the advance timer (or, for a video whose metadata is still loading, the
\* listener that arms it) stands freshly armed for the current entry
ArmedForCurrentEntry ==
    LET dl == displayList(P)
        cf == currentFile(P)
        item == dl[activeIndex + 1]
        v == getActiveVideo(P, activeVideoTag)
    IN  (mounted /\ Len(dl) > 0 /\ cf # NoFile) =>
          /\ \A t \in timers : t.tracked /\ t.item = item /\ t.adv.activeIndex = activeIndex
          /\ IF cf.mime = "video"
             THEN /\ ~v.null /\ v.src = cf.id
                  /\ \/ \E t \in timers :
                            t.delay = setBackupDelay(build, item, cf, ElDuration(v))
                     \/ \E k \in 1..Len(v.onLoaded) : v.onLoaded[k].item = item
             ELSE \E t \in timers : t.delay = ImageLinkDelay(build, item, cf, serverSettings)

PowerOn == [ type |-> "command", action |-> "power", value |-> "on" ]

PowerOff == [ type |-> "command", action |-> "power", value |-> "off" ]

\* C10: applying power=off twice in a row leaves the player in exactly the
\* state reached by applying it once: powered = false, the same activeIndex,
\* visible slot, orientation and brightness, and no pending advance timer.
C10_PowerOffIdempotent ==
    LET once == OnCommand(P, PowerOff)
        twice == OnCommand(once, PowerOff)
    IN  (mounted /\ ~once.overflow) =>
          /\ twice = once
          /\ ~once.powered
          /\ once.timers = { }
          /\ once.activeIndex = activeIndex
          /\ once.activeVideoTag = activeVideoTag
          /\ once.orientation = orientation
          /\ once.brightness = brightness

\* two commands were applied, the player is off with a non-empty list, and a
\* further power=off changes nothing
C10_Witness ==
    /\ mounted /\ ~powered /\ commandCount >= 2 /\ Len(displayList(P)) > 0
    /\ OnCommand(P, PowerOff) = P

\* C11: every command the interpreter accepts (power, orientation,
\* brightness, set_label, stop, next, prev) is idempotent: in every reachable
\* state, applying the same message twice in succession gives the same player
\* state as applying it once.
C11_CommandsIdempotent ==
    \A msg \in CommandMessages :
        LET once == OnCommand(P, msg)
            twice == OnCommand(once, msg)
        IN  (mounted /\ ~once.overflow) => twice = once

\* two commands were delivered to a player showing a list of several
\* entries; brightness 250 was applied (clamped to 200) and applying it, a
\* next or a stop once more changes nothing
C11_Witness ==
    /\ mounted /\ commandCount >= 2 /\ Len(displayList(P)) >= 2
    /\ brightness = 200
    /\ \A msg \in BrightnessMessages \cup SkipMessages :
          msg.value \in { "250", "" } => OnCommand(P, msg) = P

NextCommand == [ type |-> "command", action |-> "next", value |-> "" ]
PrevCommand == [ type |-> "command", action |-> "prev", value |-> "" ]

\* C12: a next command received while the player shows index i of an n-entry
\* list (n >= 1) moves the sequencer to (i + 1) mod n, and a prev command to
\* (i - 1 + n) mod n, at once (for a video target: at the latest when its
\* slot can play), whichever transport delivered it.
C12_SkipMoves ==
    [][ (mounted /\ Len(displayList(P)) >= 2 /\ activeIndex < Len(displayList(P)))
        => LET n == Len(displayList(P))
               waits(i) == \E tag \in { "A", "B" } :
                              \E k \in 1..Len(ElementAt(P, tag).onCanPlay) :
                                  ElementAt(P, tag).onCanPlay[k] = i
           IN  /\ Command(NextCommand) =>
                    \/ activeIndex' = (activeIndex + 1) % n
                    \/ waits((activeIndex + 1) % n)'
               /\ Command(PrevCommand) =>
                    \/ activeIndex' = (activeIndex - 1 + n) % n
                    \/ waits((activeIndex - 1 + n) % n)' ]_vars

\* C13: the active playlist is sorted ascending by order: of any two rules
\* in it, the one with the smaller order value comes first.
C13_SortedByOrder ==
    \A i, j \in 1..Len(activePlaylist) :
        activePlaylist[i].order < activePlaylist[j].order => i < j

\* two rules of different order pass the filters; the registry holds them
\* with the larger order created first
C13_Witness ==
    /\ Len(activePlaylist) = 2
    /\ Len(store.schedules) = 2
    /\ store.schedules[1].order > store.schedules[2].order
    /\ activePlaylist = << store.schedules[2], store.schedules[1] >>

\* position of rule r in the registry (Map insertion order = creation order)
CreationIndex(r) ==
    CHOOSE k \in 1..Len(store.schedules) : store.schedules[k].id = r.id

\* C14: two rules with equal order appear in the resolved list in their
\* creation order, and a resolution repeated at the same instant over the
\* same registry gives the same sequence as the one the player holds.
C14_StableOrder ==
    /\ \A i, j \in 1..Len(activePlaylist) :
          ( /\ i < j
            /\ activePlaylist[i].order = activePlaylist[j].order
            /\ \A k \in { i, j } :
                  \E m \in 1..Len(store.schedules) :
                      store.schedules[m].id = activePlaylist[k].id )
          => CreationIndex(activePlaylist[i]) < CreationIndex(activePlaylist[j])
    /\ schedules = GetSchedules(store)
          => activePlaylist = ActivePlaylistAt(now, GetSchedules(store))

\* two rules of equal order pass the filters; the one created first has the
\* larger id, and comes first in the resolved list
C14_Witness ==
    /\ Len(activePlaylist) = 2
    /\ activePlaylist[1].order = activePlaylist[2].order
    /\ activePlaylist[1].id > activePlaylist[2].id
    /\ activePlaylist = store.schedules

\* C15: whenever the display list is empty the player is idle: no advance
\* timer is pending, an advance or prev request changes nothing, and no
\* operation has raised an error.
C15_IdleWhenEmpty ==
    (mounted /\ displayList(P) = << >>)
    => /\ timers = { }
       /\ advance(P, ClosureOf(P)) = P
       /\ goPrev(P, ClosureOf(P)) = P
       /\ ~renderError

\* C16: whenever the display list changes from empty to non-empty while the
\* player is powered on, the sequencer shows index 0 of the new list,
\* whatever index it held before.
C16_FirstEntryAfterIdle ==
    [][ (mounted /\ powered /\ displayList(P) = << >> /\ displayList(P)' # << >>)
        => (activeIndex' = 0 /\ ~renderError') ]_vars

\* slot tag holds the source of the video f and can render a frame
SlotReadyFor(p, tag, f) ==
    LET el == ElementAt(p, tag) IN
    f.mime = "video" /\ ~el.null /\ el.src = f.id /\ el.readyState >= HAVE_FUTURE_DATA

\* an advance created by the render c, run in the state p, toggles the
\* visible slot only onto a slot that is ready for its target
AdvanceTogglesWhenReady(p, c) ==
    LET q == advance(p, c) IN
    (~q.overflow /\ q.activeVideoTag # p.activeVideoTag)
    => SlotReadyFor(q, q.activeVideoTag,
                    FindFile(c.files, c.displayList[q.activeIndex + 1].fileId))

RECURSIVE ListenersToggleWhenReady(_, _)
\* each 'canplay' listener of one dispatch toggles the visible slot onto a
\* slot that is ready for the entry it moves to
ListenersToggleWhenReady(p, ls) ==
    \/ ls = << >>
    \/ LET q == SwitchTo(p, Head(ls))
           dl == displayList(p)
       IN  /\ Head(ls) < Len(dl)
           /\ SlotReadyFor(q, q.activeVideoTag, FindFile(p.files, dl[Head(ls) + 1].fileId))
           /\ ListenersToggleWhenReady(q, Tail(ls))

\* C17: activeVideoTag toggles only as part of a transition whose target
\* entry is a video, and only when the idle slot holds that video's source
\* and is ready to render (readyState >= 3, or it has just fired 'canplay');
\* a transition to an image or a link never toggles it.  Stated for every
\* handler that can run next: a pending timer, 'ended', and 'canplay'.
C17_ToggleOnlyWhenReady ==
    mounted =>
        /\ \A t \in timers :
              AdvanceTogglesWhenReady([ P EXCEPT !.timers = @ \ { t } ], t.adv)
        /\ CanEnd(P) => AdvanceTogglesWhenReady(P, ClosureOf(P))
        /\ \A loc \in Locations(P) :
              CanCanPlay(ElementOf(P, loc))
              => ListenersToggleWhenReady(CanPlayFired(P, loc), ElementOf(P, loc).onCanPlay)

\* the only pending timer was armed by the current render for the entry
\* that is showing
TimerOfShowingEntry ==
    /\ mounted /\ powered /\ ~renderError
    /\ Len(displayList(P)) >= 2 /\ activeIndex < Len(displayList(P))
    /\ \E t \in timers : timers = { t } /\ t.adv = ClosureOf(P)

\* C18: the wait for the idle slot is bounded: once the advance timer of
\* the showing entry has fired the sequencer proceeds to the next index,
\* also when the next entry is a video whose idle slot is not ready, so that
\* no entry of a list of two or more is shown forever.
C18_ProceedsWhenTimerFires ==
    [][ (TimerOfShowingEntry /\ TimerFires)
        => activeIndex' = (activeIndex + 1) % Len(displayList(P)) ]_vars

\* C19: for a video entry with no schedule-level and no content-level
\* override whose natural duration d is known (finite and > 0), the advance
\* timer is armed for exactly d + 0.5 seconds (12.0 s gives 12.5 s).
C19_NaturalDurationPlusPad ==
    \A t \in timers :
        ( /\ t.file.mime = "video"
          /\ t.item.durationSeconds = 0 /\ t.file.durationSeconds = 0
          /\ t.duration > 0 )
        => t.delay = t.duration + Sec(1) \div 2

\* the showing entry is the 12 s video without overrides and its timer is
\* pending with 12.5 s
C19_Witness ==
    /\ mounted /\ powered /\ activeIndex < Len(displayList(P))
    /\ displayList(P)[activeIndex + 1].fileId = 2
    /\ \E t \in timers :
          /\ t.file.id = 2 /\ t.item.durationSeconds = 0 /\ t.file.durationSeconds = 0
          /\ t.duration = 12000 /\ t.delay = 12500

\* the showing entry is a video without overrides whose element reports no
\* usable duration (metadata not loaded, or not a finite positive number)
ShowingVideoOfUnknownDuration ==
    /\ mounted /\ powered /\ ~renderError
    /\ activeIndex < Len(displayList(P))
    /\ currentFile(P).mime = "video"
    /\ currentFile(P).durationSeconds = 0
    /\ displayList(P)[activeIndex + 1].durationSeconds = 0
    /\ getActiveVideo(P, activeVideoTag).src = currentFile(P).id
    /\ ElDuration(getActiveVideo(P, activeVideoTag)) = 0

\* C20: while the natural duration of the video being shown is unavailable
\* the player has an advance timer based on the fixed 30 s default pending,
\* so that it advances even if the metadata never loads.
C20_DefaultTimerWhenDurationUnknown ==
    ShowingVideoOfUnknownDuration
    => \E t \in timers : t.delay = UnknownVideoDuration + SafetyPad

\* C21: after any sequence of commands, including a brightness command
\* whose value is out of range or is not a number, the player's brightness
\* state is a number within 0..200.
C21_BrightnessInRange == brightness \in 0..200

\* C22: a message whose type is not 'command', or a command whose action is
\* not one of the recognised actions, leaves powered, orientation,
\* brightness, activeIndex, the visible buffer slot and the pending advance
\* timer unchanged.
C22_MalformedIgnored ==
    [][ \A msg \in MalformedMessages :
          Command(msg)
          => UNCHANGED << powered, orientation, brightness, activeIndex,
                          activeVideoTag, timers >> ]_vars

\* a message was delivered to a powered-on player that shows an entry of a
\* list with its timer pending, and a malformed message changes nothing
C22_Witness ==
    /\ mounted /\ powered /\ commandCount > 0
    /\ Len(displayList(P)) >= 2 /\ timers # { }
    /\ \A msg \in MalformedMessages : OnCommand(P, msg) = P

\* C23: after the player component unmounts no advance timer is pending
\* and none is armed: the pending timer is cancelled at unmount, and no
\* media-event listener registered before unmount arms a timer afterwards.
C23_NoTimerAfterUnmount == ~mounted => timers = { }

----------------------------------------------------------------------------
(* Server store specification: files, schedules and store.json *)

MaxStoreOps == 6       \* requests and persistence steps of the store specification

\* a request body of POST /api/schedule; << >> is an absent field
Body(id, fileId, startAt, endAt, order, startTime, endTime) ==
    [ id |-> id, fileId |-> fileId, startAt |-> startAt, endAt |-> endAt,
      order |-> order, days |-> << >>, startTime |-> startTime,
      endTime |-> endTime, durationSeconds |-> << >> ]

ScheduleBodies ==
    { Body(<< >>, 1, << >>, << >>, << >>, << >>, << >>),
      Body(<< >>, 2, << 2000 >>, << 1000 >>, << >>, << >>, << >>),
      Body(<< >>, 1, << 0 >>, << 5000 >>, << 2 >>, << 9, 0 >>, << 18, 0 >>),
      Body(<< >>, 1, << 0 >>, << 5000 >>, << >>, << 18, 0 >>, << 9, 0 >>),
      Body(<< 1 >>, 2, << 0 >>, << 5000 >>, << 1 >>, << >>, << >>),
      Body(<< >>, 4, << >>, << >>, << >>, << >>, << >>),
      Body(<< >>, 9, << >>, << >>, << >>, << >>, << >>) }

HourMinutes == 60      \* 3600_000 ms

\* `${Date.now()}-${Math.random()...}`: an id no stored rule has
FreshId(st) ==
    LET used == { 0 } \cup { st.schedules[i].id : i \in 1..Len(st.schedules) }
    IN  1 + CHOOSE m \in used : \A n \in used : n <= m

\* addSchedule: store.schedules.set(schedule.id, schedule); a Map keeps the
\* position of a key that is already present
addSchedule(st, item) ==
    scheduleSave(
      IF \E i \in 1..Len(st.schedules) : st.schedules[i].id = item.id
      THEN [ st EXCEPT !.schedules =
                 [ i \in 1..Len(@) |-> IF @[i].id = item.id THEN item ELSE @[i] ] ]
      ELSE [ st EXCEPT !.schedules = Append(@, item) ])

\* removeSchedule: delete by id, saving only when something was removed
removeSchedule(st, id) ==
    IF \E i \in 1..Len(st.schedules) : st.schedules[i].id = id
    THEN scheduleSave([ st EXCEPT !.schedules = SelectSeq(@, LAMBDA s : s.id # id) ])
    ELSE st

\* the item POST /api/schedule builds from a body at instant t
ScheduleItem(st, body, t) ==
    LET start == IF body.startAt # << >> THEN body.startAt[1] ELSE t
        end == IF body.endAt # << >> THEN body.endAt[1] ELSE start + HourMinutes
        ord == IF body.order # << >> THEN body.order[1] ELSE 0
        providedDuration ==
            IF body.durationSeconds # << >> /\ body.durationSeconds[1] > 0
            THEN body.durationSeconds[1] * 1000 ELSE 0
        effectiveDuration ==
            IF FileCat(body.fileId).mime = "link" /\ providedDuration = 0
            THEN 10 * 1000 ELSE providedDuration
    IN  FullRule(IF body.id # << >> THEN body.id[1] ELSE FreshId(st),
                 body.fileId, start, end, ord, body.days,
                 body.startTime, body.endTime, effectiveDuration)

\* POST /api/schedule: 400 for a fileId that names no stored file
PostSchedule(st, body, t) ==
    IF body.fileId \notin Range(st.files) THEN st
    ELSE addSchedule(st, ScheduleItem(st, body, t))

\* saveStoreToDisk: store.json gets the store's files, schedules and settings
saveStoreToDisk(st) ==
    [ st EXCEPT !.persistence.saved =
                    << [ files |-> st.files, schedules |-> st.schedules,
                         playerSettings |-> st.playerSettings ] >> ]

\* a new server process: the module initialiser builds an empty store and
\* calls loadStoreFromDisk() without awaiting it
StartProcess(st) ==
    [ files |-> << >>, schedules |-> << >>, playerSettings |-> DefaultSettings,
      persistence |-> [ saved |-> st.persistence.saved,
                        unlinked |-> st.persistence.unlinked,
                        saveTimeout |-> 0, loading |-> TRUE ],
      tokens |-> { }, adminPassword |-> DefaultPassword, denied |-> "" ]

\* loadStoreFromDisk once store.json was read: files whose upload is still on
\* disk (or that are external), then the schedules of restored files
loadStoreFromDisk(st) ==
    IF st.persistence.saved = << >> THEN [ st EXCEPT !.persistence.loading = FALSE ]
    ELSE LET data == st.persistence.saved[1]
             fs == SelectSeq(data.files,
                             LAMBDA f : FileCat(f).mime = "link"
                                        \/ f \notin st.persistence.unlinked)
         IN  [ st EXCEPT !.files = fs,
                         !.schedules = SelectSeq(data.schedules,
                                                 LAMBDA s : s.fileId \in Range(fs)),
                         !.playerSettings = data.playerSettings,
                         !.persistence.loading = FALSE ]

\* POST /api/schedule
CreateSchedule ==
    \E body \in ScheduleBodies, token \in store.tokens :
        ServerStep(Authorized(store, token, PostSchedule(store, body, now)))

\* DELETE /api/schedule?id=
DeleteSchedule ==
    \E id \in 1..3, token \in store.tokens :
        ServerStep(Authorized(store, token, removeSchedule(store, id)))

\* a save timer fires: the callback of scheduleSave calls saveStoreToDisk()
SaveToDisk ==
    /\ store.persistence.saveTimeout > 0
    /\ store' = [ saveStoreToDisk(store) EXCEPT !.persistence.saveTimeout = @ - 1 ]
    /\ UNCHANGED << build, playerVars, loads, now, commandCount, net, serverOps >>

\* the server process is restarted
Restart ==
    /\ ~store.persistence.loading
    /\ ServerStep(StartProcess(store))

\* the read of store.json completes
LoadFromDisk ==
    /\ store.persistence.loading
    /\ ServerStep(loadStoreFromDisk(store))

InitStore ==
    /\ build = "route"
    /\ mounted = TRUE /\ renderError = FALSE
    /\ files = << >> /\ schedules = << >> /\ activePlaylist = << >>
    /\ serverSettings = DefaultSettings
    /\ activeIndex = 0 /\ activeVideoTag = "A" /\ powered = TRUE
    /\ orientation = "landscape" /\ brightness = 100 /\ label = ""
    /\ timers = { } /\ videoARef = NullEl /\ videoBRef = NullEl
    /\ detached = << >>
    /\ deps = InitialPlayer(build).deps
    /\ loads = << >>
    /\ now = PlayerNow
    /\ store \in { saveStoreToDisk(IdleStore),
                  saveStoreToDisk([ IdleStore EXCEPT !.files = << 1, 4 >> ]) }
    /\ serverOps = MaxServerOps - MaxStoreOps
    /\ commandCount = 0
    /\ net = InitialNet(now)

NextStore ==
    \/ UploadFile
    \/ DeleteFile
    \/ CreateSchedule
    \/ DeleteSchedule
    \/ SaveToDisk
    \/ Restart
    \/ LoadFromDisk
    \/ Login

\* the save timer is a setTimeout of the server process: it fires unless the
\* process is restarted first
SpecStore == InitStore /\ [][NextStore]_vars /\ WF_vars(SaveToDisk)

\* C24: in the server store every schedule's fileId names a stored file,
\* after any sequence of file uploads, file deletions, schedule creations,
\* schedule deletions, saves, restarts and loads from disk.
C24_SchedulesNameStoredFiles ==
    \A i \in 1..Len(store.schedules) : store.schedules[i].fileId \in Range(store.files)

\* C24 (cascade): deleting a file removes exactly the schedules that reference it
C24_DeleteCascades ==
    \A id \in Range(store.files) :
        removeFile(unlink(store, id), id).schedules
            = SelectSeq(store.schedules, LAMBDA s : s.fileId # id)

C24_ReferentialIntegrity == C24_SchedulesNameStoredFiles /\ C24_DeleteCascades

\* rules of both files were saved, file 1 was deleted, and the restarted
\* server restored file 2 with its rule only
C24_Witness ==
    /\ store.files = << 2 >>
    /\ Len(store.schedules) = 1
    /\ store.persistence.unlinked = { 1 }
    /\ store.persistence.saved # << >>
    /\ ~store.persistence.loading /\ store.persistence.saveTimeout = 0
    /\ store.persistence.saved[1].files = << 1, 2 >>
    /\ Len(store.persistence.saved[1].schedules) = 2

\* C25: every stored rule has endAt strictly greater than startAt and, when
\* it has both startTime and endTime, endTime strictly after startTime,
\* whatever body the schedule-create request carried.
C25_WindowsOrdered ==
    \A i \in 1..Len(store.schedules) :
        LET s == store.schedules[i]
        IN  /\ s.endAt > s.startAt
            /\ (s.startTime # << >> /\ s.endTime # << >>)
                   => toMin(s.endTime) > toMin(s.startTime)

\* C26: a stored rule is never changed in place: a schedule-create request
\* that is accepted adds exactly one rule and leaves every rule already in
\* the store, its id and all its fields, as it was.
C26_CreateOnlyAdds ==
    [][ \A body \in ScheduleBodies :
          (/\ body.fileId \in Range(store.files)
           /\ ServerStep(PostSchedule(store, body, now)))
          => /\ Len(store'.schedules) = Len(store.schedules) + 1
             /\ \A i \in 1..Len(store.schedules) :
                    store'.schedules[i] = store.schedules[i] ]_vars

----------------------------------------------------------------------------
(* Clock specification: time crosses rule boundaries while the player runs, *)
(* with the periodic content check, the polling interval and the socket *)

MaxPolls == 1          \* /api/commands responses in flight
MaxQueued == 1         \* commands in the server's queue

\* rule 1 shows file 1 until 1500, rule 2 shows file 4 from 2000 on
TickStore ==
    [ files |-> << 1, 4 >>,
      schedules |-> << FullRule(1, 1, 0, 1500, 0, << >>, << >>, << >>, 5000),
                       FullRule(2, 4, 2000, 100000, 1, << >>, << >>, << >>, 0) >>,
      playerSettings |-> DefaultSettings, persistence |-> NoPersistence,
      tokens |-> { "t1" }, adminPassword |-> DefaultPassword, denied |-> "" ]

TickInstants == { 1000, 1600, 2000 }

\* time passes to the next instant; more than 5 s have passed since the last
\* refresh
AdvanceTime ==
    /\ \E t \in TickInstants :
         /\ t > now
         /\ \A u \in TickInstants : u > now => t <= u
         /\ now' = t
    /\ net' = [ net EXCEPT !.recent = FALSE ]
    /\ UNCHANGED << build, playerVars, loads, store, serverOps, commandCount >>

\* the 60 s content check: route.ts calls load() only when the player is
\* powered off or shows nothing; page.tsx has no such interval
PeriodicTick ==
    /\ build = "route"
    /\ ~powered \/ Len(displayList(P)) = 0
    /\ StartLoad

\* the polling interval while the socket is closed: load() (route.ts tests
\* the mount closure's empty displayList) and a GET /api/commands?since=
PollTick ==
    /\ mounted
    /\ net.ws # "open"
    /\ Len(loads) < MaxLoads
    /\ Len(net.polls) < MaxPolls
    /\ loads' = Append(loads, [ schedules |-> GetSchedules(store), stale |-> FALSE ])
    /\ net' = [ net EXCEPT !.polls =
                  Append(@, [ since |-> net.lastCmdTs,
                              commands |-> SelectSeq(net.commands,
                                               LAMBDA c : c.ts > net.lastCmdTs) ]),
                          !.commands =
                              [ i \in 1..Len(@) |->
                                  [ @[i] EXCEPT !.returned =
                                      @ \/ net.commands[i].ts > net.lastCmdTs ] ],
                          !.owed = IF @ = "uncovered" THEN "covered" ELSE @ ]
    /\ UNCHANGED << build, playerVars, now, store, serverOps, commandCount >>

RECURSIVE ApplyAll(_, _)
\* for (const c of data.commands) applyCommand(c.payload)
ApplyAll(p, cs) ==
    IF cs = << >> THEN p ELSE ApplyAll(applyCommand(p, Head(cs).payload), Tail(cs))

RECURSIVE MaxTs(_, _)
\* let maxTs = since; if (c.ts > maxTs) maxTs = c.ts
MaxTs(since, cs) ==
    IF cs = << >> THEN since ELSE MaxTs(Max(since, Head(cs).ts), Tail(cs))

\* the response of a poll: apply the commands, then record the highest
\* timestamp when it is above the `since` of the request
PollDone(n) ==
    LET r == Head(n.polls)
        maxTs == MaxTs(r.since, r.commands)
        m == [ n EXCEPT !.polls = Tail(@) ]
    IN  IF maxTs > r.since THEN setLastCmdTs(m, maxTs) ELSE m

PollResponse ==
    /\ Len(net.polls) > 0
    /\ SetP(AfterHandler(P, ApplyAll(P, Head(net.polls).commands), FALSE))
    /\ net' = PollDone(net)
    /\ UNCHANGED << loads, store, serverOps, commandCount >>

\* ws.onclose of the socket wsRef refers to: wsRef.current = null and
\* scheduleReconnect()
WsClose ==
    /\ net.ws # "none"
    /\ net' = scheduleReconnect([ net EXCEPT !.ws = "none" ], ~mounted)
    /\ UNCHANGED << build, playerVars, loads, now, store, serverOps, commandCount >>

\* the reconnect timer fires, connect() opens a new socket and it opens
WsOpen ==
    /\ mounted
    /\ net.ws = "none" /\ net.reconnectTimer
    /\ net' = [ connect([ net EXCEPT !.reconnectTimer = FALSE ], FALSE)
                   EXCEPT !.ws = "open" ]
    /\ UNCHANGED << build, playerVars, loads, now, store, serverOps, commandCount >>

\* POST /api/commands: commands.push({ ts: Date.now(), payload }).  Each
\* entry also records whether the player's socket was down when it was
\* appended and whether a GET has returned it to the player
QueueCommand ==
    \E msg \in PowerMessages :
        /\ Len(net.commands) < MaxQueued
        /\ net' = [ net EXCEPT !.commands =
                      Append(@, [ ts |-> now, payload |-> msg,
                                  down |-> net.ws # "open", returned |-> FALSE ]) ]
        /\ UNCHANGED << build, playerVars, loads, now, store, serverOps, commandCount >>

\* the mount effect has called load()
InitTick ==
    /\ build \in { "route", "page" }
    /\ mounted = TRUE /\ renderError = FALSE
    /\ files = << >> /\ schedules = << >> /\ activePlaylist = << >>
    /\ serverSettings = DefaultSettings
    /\ activeIndex = 0 /\ activeVideoTag = "A" /\ powered = TRUE
    /\ orientation = "landscape" /\ brightness = 100 /\ label = ""
    /\ timers = { } /\ videoARef = NullEl /\ videoBRef = NullEl
    /\ detached = << >>
    /\ deps = InitialPlayer(build).deps
    /\ now = 1000
    /\ store = TickStore
    /\ loads = << [ schedules |-> GetSchedules(store), stale |-> FALSE ] >>
    /\ serverOps = 0
    /\ commandCount = 0
    /\ net = InitialNet(now)

NextTick ==
    \/ AdvanceTime
    \/ PeriodicTick
    \/ PollTick
    \/ PollResponse
    \/ WsClose
    \/ WsOpen
    \/ QueueCommand
    \/ Power
    \/ TimerFires
    \/ LoadDone

\* ENABLED <<LoadDone>>_vars: a load() is in flight
LoadDoneEnabled ==
    \E i \in 1..Len(loads) :
        ~OnLoadDone(P, now, [ files |-> GetFiles(store),
                             schedules |-> loads[i].schedules,
                             settings |-> store.playerSettings ]).overflow

\* ENABLED <<TimerFires>>_vars: an advance timer is pending
TimerFiresEnabled == \E t \in timers : ~OnTimer(P, t).overflow

\* intervals keep firing, fetches complete and armed timers expire; the last
\* two conjuncts are WF_vars(LoadDone) and WF_vars(TimerFires) with ENABLED
\* written out
SpecTick ==
    /\ InitTick
    /\ [][NextTick]_vars
    /\ WF_vars(PeriodicTick)
    /\ WF_vars(PollTick)
    /\ WF_vars(PollResponse)
    /\ ([]<>~LoadDoneEnabled \/ []<><<LoadDone>>_vars)
    /\ ([]<>~TimerFiresEnabled \/ []<><<TimerFires>>_vars)

\* C27: without a mutation event, once time has crossed a rule boundary the
\* periodic tick re-resolves the display list, so that it eventually equals
\* the resolver's result for the current time, in every player state.
C27_EventuallyResolved ==
    <>[](activePlaylist = ActivePlaylistAt(now, schedules))

----------------------------------------------------------------------------
(* Refresh specification: the store changes and {type:'refresh'} *)
(* notifications reach the player over the socket *)

MaxRefreshes == 2      \* refresh notifications broadcast per behaviour

\* the admin page broadcasts {type:'refresh'} to the connected players
BroadcastRefresh ==
    /\ net.ws = "open"
    /\ net.sent < MaxRefreshes
    /\ net' = [ net EXCEPT !.refreshes = @ + 1, !.sent = @ + 1 ]
    /\ UNCHANGED << build, playerVars, loads, now, store, serverOps, commandCount >>

\* doVisibleRefresh as ws.onmessage captured it at mount: route.ts returns
\* when the last refresh is less than 5 s old and else reloads, since the
\* displayList of the first render is empty; page.tsx always reloads
doVisibleRefresh(n, b) ==
    IF b = "route" /\ n.recent THEN [ reload |-> FALSE, net |-> n ]
    ELSE IF b = "route"
    THEN [ reload |-> Len(MountClosure.displayList) = 0,
           net |-> [ n EXCEPT !.recent = TRUE ] ]
    ELSE [ reload |-> TRUE, net |-> n ]

\* ws.onmessage receives {type:'refresh'}
RefreshNotification ==
    /\ mounted
    /\ net.ws = "open"
    /\ net.refreshes > 0
    /\ LET r == doVisibleRefresh([ net EXCEPT !.refreshes = @ - 1 ], build)
       IN  IF r.reload
           THEN /\ Len(loads) < MaxLoads
                /\ loads' = Append(loads, [ schedules |-> GetSchedules(store), stale |-> FALSE ])
                /\ net' = [ r.net EXCEPT !.owed = "covered" ]
           ELSE /\ loads' = loads
                /\ net' = [ r.net EXCEPT !.owed = "uncovered" ]
    /\ UNCHANGED << build, playerVars, now, store, serverOps, commandCount >>

\* five seconds pass after the last refresh
ThrottleExpires ==
    /\ net.recent
    /\ net' = [ net EXCEPT !.recent = FALSE ]
    /\ UNCHANGED << build, playerVars, loads, now, store, serverOps, commandCount >>

NextRefresh ==
    \/ DeleteFile
    \/ BroadcastRefresh
    \/ RefreshNotification
    \/ ThrottleExpires
    \/ PeriodicTick
    \/ Power
    \/ TimerFires
    \/ LoadDone

\* the player starts as in the clock specification; messages on an open
\* socket are delivered, time passes, the content check keeps firing,
\* fetches complete and armed timers expire (the last two conjuncts are WF_vars(LoadDone) and
\* WF_vars(TimerFires) with ENABLED written out)
SpecRefresh ==
    /\ InitTick
    /\ [][NextRefresh]_vars
    /\ WF_vars(RefreshNotification)
    /\ WF_vars(ThrottleExpires)
    /\ WF_vars(PeriodicTick)
    /\ ([]<>~LoadDoneEnabled \/ []<><<LoadDone>>_vars)
    /\ ([]<>~TimerFiresEnabled \/ []<><<TimerFires>>_vars)

\* C28: every {type:'refresh'} notification the player receives eventually
\* leads to a completed reload that was started at or after the
\* notification, also when notifications arrive close together and while
\* content is playing.
C28_RefreshLeadsToReload == (net.owed # "none") ~> (net.owed = "none")

\* C29: lastCmdTs is the highest timestamp among the commands the player has
\* applied and never decreases, whatever the interleaving of socket
\* deliveries, poll requests and poll responses.
C29_LastCmdTsNeverDecreases == [][ net'.lastCmdTs >= net.lastCmdTs ]_vars

\* C30: in fallback mode (no rule passes the filters) the display list
\* presents the content items in registry insertion order.
C30_FallbackInInsertionOrder ==
    (Len(activePlaylist) = 0 /\ Len(files) > 0)
        => [ i \in 1..Len(displayList(P)) |-> displayList(P)[i].fileId ] = store.files

\* C31: mutations of the store are saved through a debounce: at most one save
\* timer is pending at any time; a mutation leaves store.json alone and leaves
\* exactly one timer armed (a further mutation cancels and restarts it); and
\* once a timer is armed, store.json eventually holds the store's files,
\* schedules and settings (or the process was restarted first).
C31_DebouncedSave ==
    /\ [](store.persistence.saveTimeout <= 1)
    /\ [][ ( /\ << store'.files, store'.schedules, store'.playerSettings >>
                    # << store.files, store.schedules, store.playerSettings >>
             /\ store'.persistence.loading = store.persistence.loading )
           => ( /\ store'.persistence.saved = store.persistence.saved
                /\ store'.persistence.saveTimeout = 1 ) ]_vars
    /\ (store.persistence.saveTimeout > 0)
           ~> ( \/ store.persistence.saved = saveStoreToDisk(store).persistence.saved
                \/ store.persistence.loading )

\* a deletion, an upload and a new rule were written by a save, and no
\* timer is left
C31_Witness ==
    /\ store.persistence.saveTimeout = 0 /\ ~store.persistence.loading
    /\ store.files = << 2, 3 >> /\ Len(store.schedules) = 1
    /\ store.persistence.saved = saveStoreToDisk(store).persistence.saved

\* C32: the end of one item causes at most one advance.  When the idle slot
\* holds only 'canplay' listeners registered by advance for the entry after
\* the one showing (the timer and 'ended' both fired, or advance ran again
\* while an earlier call was waiting), its 'canplay' moves activeIndex to that
\* entry and toggles the visible slot exactly once, so that the visible slot
\* holds the video of the entry at activeIndex.
C32_OneAdvancePerItem ==
    LET dl == displayList(P)
        idle == getIdleVideo(P, activeVideoTag)
        next == (activeIndex + 1) % Len(dl)
    IN  ( /\ mounted /\ powered /\ ~renderError
          /\ Len(dl) > 0 /\ activeIndex < Len(dl)
          /\ CanCanPlay(idle) /\ idle.onCanPlay # << >>
          /\ \A i \in 1..Len(idle.onCanPlay) : idle.onCanPlay[i] = next )
        => LET q == OnCanPlay(P, Slot(Other(activeVideoTag))) IN
           /\ q.activeIndex = next
           /\ q.activeVideoTag = Other(activeVideoTag)
           /\ ElementAt(q, q.activeVideoTag).src = dl[next + 1].fileId

\* C33: whenever an advance timer is pending it was armed for the entry at
\* activeIndex: it carries that entry and its file, its delay is that entry's
\* effective duration, and its firing targets (activeIndex + 1) mod n.  (A
\* 'loadedmetadata' listener left over from an earlier item never cancels or
\* replaces the timer of the item now showing.)
C33_TimerArmedForShowingEntry ==
    LET dl == displayList(P) IN
    (mounted /\ ~renderError) =>
        \A t \in timers :
            /\ Len(dl) > 0 /\ activeIndex < Len(dl)
            /\ t.item = dl[activeIndex + 1]
            /\ t.file.id = t.item.fileId
            /\ t.delay = IF t.file.mime = "video"
                         THEN setBackupDelay(build, t.item, t.file, t.duration)
                         ELSE ImageLinkDelay(build, t.item, t.file, serverSettings)
            /\ Len(t.adv.displayList) > 0
            /\ (t.adv.activeIndex + 1) % Len(t.adv.displayList)
                   = (activeIndex + 1) % Len(dl)

\* C34: a video entry with a duration override D longer than the video
\* stays on screen until D has elapsed: the 'ended' event of the visible
\* video does not move the sequencer to another entry.
C34_EndedKeepsOverriddenVideo ==
    [][ ( /\ Ended
          /\ Len(displayList(P)) >= 2 /\ activeIndex < Len(displayList(P))
          /\ Max(displayList(P)[activeIndex + 1].durationSeconds,
                 currentFile(P).durationSeconds)
                 > ElDuration(getActiveVideo(P, activeVideoTag)) )
        => activeIndex' = activeIndex ]_vars

\* C35: a rule created for a link by a request without durationSeconds (every
\* request of the store specification) shows the link for the link's own
\* content-level override if it has one, else for the global
\* defaultLinkDuration: schedule creation adds no override of its own.
C35_LinkRuleKeepsLinkDuration ==
    \A i \in 1..Len(store.schedules) :
        LET s == store.schedules[i]
            f == FileCat(s.fileId)
        IN  f.mime = "link"
            => ImageLinkDelay("route", s, f, store.playerSettings)
                   = IF f.durationSeconds > 0 THEN f.durationSeconds
                     ELSE store.playerSettings.defaultLinkDuration

----------------------------------------------------------------------------
(* Socket specification: connect, reconnect timer, 'online', unmount *)

MaxSockets == 3        \* sockets that are connecting or open at one time
MaxOverlap == 2        \* load() calls in flight in the socket specification

\* the sockets that are connecting or open
LiveSockets(n) ==
    (IF n.ws = "none" THEN 0 ELSE 1) + n.orphans.connecting + n.orphans.open

\* ws.onopen of a connecting socket (the one wsRef refers to, or another)
SocketOpens ==
    /\ \/ /\ net.ws = "connecting"
          /\ net' = [ net EXCEPT !.ws = "open" ]
       \/ /\ net.orphans.connecting > 0
          /\ net' = [ net EXCEPT !.orphans.connecting = @ - 1,
                                 !.orphans.open = @ + 1 ]
    /\ UNCHANGED << build, playerVars, loads, now, store, serverOps, commandCount >>

\* ws.onclose of a socket wsRef no longer refers to: wsRef.current = null
\* (whatever socket it refers to) and scheduleReconnect()
OrphanCloses ==
    \E k \in { "connecting", "open" } :
        /\ net.orphans[k] > 0
        /\ LET m == [ net EXCEPT !.orphans[k] = @ - 1 ] IN
           net' = scheduleReconnect(
                      [ m EXCEPT !.ws = "none",
                                 !.orphans = IF m.ws = "none" THEN @
                                             ELSE [ @ EXCEPT ![m.ws] = @ + 1 ] ],
                      ~mounted)
        /\ UNCHANGED << build, playerVars, loads, now, store, serverOps, commandCount >>

\* the reconnect timer fires: connect()
ReconnectFires ==
    /\ net.reconnectTimer
    /\ LiveSockets(net) < MaxSockets
    /\ net' = connect([ net EXCEPT !.reconnectTimer = FALSE ], ~mounted)
    /\ UNCHANGED << build, playerVars, loads, now, store, serverOps, commandCount >>

\* window 'online': load() (route.ts tests the mount closure's empty
\* displayList), then connect() unless wsRef refers to an open socket
Online ==
    /\ mounted
    /\ Len(loads) < MaxOverlap
    /\ LiveSockets(net) < MaxSockets
    /\ loads' = Append(loads, [ schedules |-> GetSchedules(store), stale |-> FALSE ])
    /\ net' = IF net.ws # "open" THEN connect(net, FALSE) ELSE net
    /\ UNCHANGED << build, playerVars, now, store, serverOps, commandCount >>

\* the mount effect has called load() and connect()
InitSocket ==
    /\ build \in { "route", "page" }
    /\ mounted = TRUE /\ renderError = FALSE
    /\ files = << >> /\ schedules = << >> /\ activePlaylist = << >>
    /\ serverSettings = DefaultSettings
    /\ activeIndex = 0 /\ activeVideoTag = "A" /\ powered = TRUE
    /\ orientation = "landscape" /\ brightness = 100 /\ label = ""
    /\ timers = { } /\ videoARef = NullEl /\ videoBRef = NullEl
    /\ detached = << >>
    /\ deps = InitialPlayer(build).deps
    /\ now = PlayerNow
    /\ store \in { FullStore, ScheduledStore }
    /\ loads = << [ schedules |-> GetSchedules(store), stale |-> FALSE ] >>
    /\ serverOps = 0
    /\ commandCount = 0
    /\ net = connect([ InitialNet(now) EXCEPT !.ws = "none" ], FALSE)

NextSocket ==
    \/ SocketOpens
    \/ WsClose
    \/ OrphanCloses
    \/ ReconnectFires
    \/ Online
    \/ Unmounts
    \/ LoadDone
    \/ DeleteFile

SpecSocket == InitSocket /\ [][NextSocket]_vars

\* C36: the player keeps at most one live WebSocket and wsRef refers to it:
\* no socket that is connecting or open exists besides the one wsRef refers
\* to (neither the reconnect timer nor 'online' opens a second one, and the
\* close of a superseded socket never clears the reference to its
\* replacement); after unmount no reconnect is pending or under way.
C36_OneLiveSocket ==
    /\ net.orphans.connecting + net.orphans.open = 0
    /\ ~mounted => (~net.reconnectTimer /\ net.ws # "connecting")

\* C37: while the socket is down, a command that was appended to the queue
\* while the socket was down and that no poll has returned yet is not behind
\* the `since` of the next poll (ts < lastCmdTs), so that the 'ts > since'
\* filter cannot skip it.
C37_QueuedCommandNotBehindSince ==
    net.ws # "open" =>
        \A i \in 1..Len(net.commands) :
            (net.commands[i].down /\ ~net.commands[i].returned)
            => net.commands[i].ts >= net.lastCmdTs

\* C38: when load() calls overlap, the state is that of the call started
\* last: the response of a call that a later call has overtaken does not
\* change the player's files, schedules or settings; and after each completed
\* load every schedule in the player's state references a file in the
\* player's files.
C38_NewestLoadWins ==
    /\ [](\A i \in 1..Len(loads) :
            loads[i].stale
            => LET q == OnLoadDone(P, now, [ files |-> GetFiles(store),
                                             schedules |-> loads[i].schedules,
                                             settings |-> store.playerSettings ])
               IN  /\ q.files = files /\ q.schedules = schedules
                   /\ q.serverSettings = serverSettings)
    /\ [][ LoadDone
           => \A i \in 1..Len(schedules') :
                  \E j \in 1..Len(files') : files'[j].id = schedules'[i].fileId ]_vars

----------------------------------------------------------------------------
(* Admin specification: bearer tokens, settings and password requests *)

\* a JSON value of a request body; numbers are held in tenths (1506 is 150.6)
JsonValue(type, num, str, bool) ==
    [ type |-> type, num |-> num, str |-> str, bool |-> bool ]

\* Math.round of a number held in tenths
Round(n) == (n + 5) \div 10

\* a request body of POST /api/settings; << >> is an absent field, object is
\* FALSE for a body that is no JSON object
SettingsBody(object, bright, orient, auto, image, link) ==
    [ object |-> object, brightness |-> bright, orientation |-> orient,
      autoStart |-> auto, defaultImageDuration |-> image,
      defaultLinkDuration |-> link ]

SettingsBodies ==
    { SettingsBody(TRUE, << JsonValue("number", 1506, "", FALSE) >>, << >>, << >>, << >>, << >>),
      SettingsBody(TRUE, << JsonValue("number", 2500, "", FALSE) >>,
                   << JsonValue("string", 0, "portrait", FALSE) >>, << >>, << >>, << >>),
      SettingsBody(TRUE, << JsonValue("string", 0, "50", FALSE) >>,
                   << JsonValue("string", 0, "upside-down", FALSE) >>, << >>, << >>, << >>),
      SettingsBody(TRUE, << >>, << >>, << >>,
                   << JsonValue("number", 4, "", FALSE) >>,
                   << JsonValue("number", 36000, "", FALSE) >>),
      SettingsBody(TRUE, << >>, << >>, << JsonValue("string", 0, "yes", FALSE) >>,
                   << JsonValue("number", 14, "", FALSE) >>,
                   << JsonValue("number", 36004, "", FALSE) >>),
      SettingsBody(TRUE, << >>, << >>, << JsonValue("boolean", 0, "", FALSE) >>,
                   << >>, << >>),
      SettingsBody(TRUE, << >>, << >>, << >>, << >>, << >>),
      SettingsBody(FALSE, << >>, << >>, << >>, << >>, << >>) }

\* updatePlayerSettings: { ...store.playerSettings, ...settings }, scheduleSave
updatePlayerSettings(st, updates) ==
    scheduleSave([ st EXCEPT !.playerSettings =
        [ f \in DOMAIN st.playerSettings |->
            IF updates[f] # << >> THEN updates[f][1] ELSE st.playerSettings[f] ] ])

\* the validation of POST /api/settings without the range tests
SettingsUpdatesMutant(body) ==
    [ brightness |-> IF body.brightness # << >> /\ body.brightness[1].type = "number"
                     THEN << Round(body.brightness[1].num) >> ELSE << >>,
      orientation |-> << >>, autoStart |-> << >>,
      defaultImageDuration |-> << >>, defaultLinkDuration |-> << >> ]

\* POST /api/settings: the fields of the body that pass validation
SettingsUpdates(body) ==
    LET Duration(v) ==
            IF v # << >> /\ v[1].type = "number" /\ v[1].num >= 10 /\ v[1].num <= 36000
            THEN << Sec(Round(v[1].num)) >> ELSE << >>
    IN
    [ brightness |->
          IF /\ body.brightness # << >> /\ body.brightness[1].type = "number"
             /\ body.brightness[1].num >= 0 /\ body.brightness[1].num <= 2000
          THEN << Round(body.brightness[1].num) >> ELSE << >>,
      orientation |->
          IF /\ body.orientation # << >> /\ body.orientation[1].type = "string"
             /\ body.orientation[1].str \in { "landscape", "portrait" }
          THEN << body.orientation[1].str >> ELSE << >>,
      autoStart |->
          IF body.autoStart # << >> /\ body.autoStart[1].type = "boolean"
          THEN << body.autoStart[1].bool >> ELSE << >>,
      defaultImageDuration |-> Duration(body.defaultImageDuration),
      defaultLinkDuration |-> Duration(body.defaultLinkDuration) ]

\* POST /api/settings: 400 for a body that is no object (`field in body`
\* throws) or that has no valid field
PostSettings(st, body) ==
    IF ~body.object THEN st
    ELSE LET updates == SettingsUpdates(body) IN
         IF \A f \in DOMAIN updates : updates[f] = << >> THEN st
         ELSE updatePlayerSettings(st, updates)

UpdateSettings ==
    \E body \in SettingsBodies, token \in store.tokens :
        ServerStep(Authorized(store, token, PostSettings(store, body)))

PasswordBodies ==
    { [ oldPassword |-> DefaultPassword, newPassword |-> "secret" ],
      [ oldPassword |-> "wrong", newPassword |-> "secret" ],
      [ oldPassword |-> DefaultPassword, newPassword |-> "abc" ],
      [ oldPassword |-> "anjuman", newPassword |-> "" ] }

\* POST /api/auth/password: master reset, 400 for a wrong current password
\* or a new password shorter than 4 characters ("" and "abc" here)
PostPassword(st, body) ==
    IF body.oldPassword = "anjuman" THEN [ st EXCEPT !.adminPassword = DefaultPassword ]
    ELSE IF body.oldPassword = "" \/ body.oldPassword # st.adminPassword THEN st
    ELSE IF body.newPassword \in { "", "abc" } THEN st
    ELSE [ st EXCEPT !.adminPassword = body.newPassword ]

ChangePassword ==
    \E body \in PasswordBodies, token \in store.tokens :
        ServerStep(Authorized(store, token, PostPassword(store, body)))

\* what each mutating request would do to the store once past auth(req)
MutatingRequests(st, t) ==
    { PostSchedule(st, body, t) : body \in ScheduleBodies }
    \cup { removeSchedule(st, id) : id \in 1..3 }
    \cup { removeFile(unlink(st, id), id) : id \in Range(st.files) }
    \cup { addFile(writeFile(st, id), id) : id \in UploadCat }
    \cup { PostSettings(st, body) : body \in SettingsBodies }
    \cup { PostPassword(st, body) : body \in PasswordBodies }

\* a mutating request without an Authorization header, with a token that was
\* never issued, or with the token of a session of an earlier process
Unauthorized ==
    \E token \in { "", "t0", "t1" } \ store.tokens :
        \E r \in MutatingRequests(store, now) :
            ServerStep(Authorized(store, token, r))

MaxAdminOps == 4       \* requests and restarts of the admin specification

InitAdmin ==
    /\ build = "route"
    /\ mounted = TRUE /\ renderError = FALSE
    /\ files = << >> /\ schedules = << >> /\ activePlaylist = << >>
    /\ serverSettings = DefaultSettings
    /\ activeIndex = 0 /\ activeVideoTag = "A" /\ powered = TRUE
    /\ orientation = "landscape" /\ brightness = 100 /\ label = ""
    /\ timers = { } /\ videoARef = NullEl /\ videoBRef = NullEl
    /\ detached = << >>
    /\ deps = InitialPlayer(build).deps
    /\ loads = << >>
    /\ now = PlayerNow
    /\ store \in { saveStoreToDisk(IdleStore), saveStoreToDisk(ScheduledStore) }
    /\ serverOps = MaxServerOps - MaxAdminOps
    /\ commandCount = 0
    /\ net = InitialNet(now)

NextAdmin ==
    \/ Login
    \/ Unauthorized
    \/ UpdateSettings
    \/ ChangePassword
    \/ Restart
    \/ LoadFromDisk

SpecAdmin == InitAdmin /\ [][NextAdmin]_vars

\* C39: a mutating store request (schedule create or delete, file upload or
\* link add, file delete, settings update, password change) that carries no
\* bearer token issued by a login of this process gets 401 and leaves the
\* files, schedules, settings, admin password and token set (and everything
\* else in the store) unchanged.
C39_UnauthorizedChangesNothing ==
    [][ Unauthorized => store' = [ store EXCEPT !.denied = "Unauthorized" ] ]_vars

\* a request was answered 401 Unauthorized while a rule, changed settings and
\* a changed password are in the store and nobody is logged in
C39_Witness ==
    /\ store.denied = "Unauthorized"
    /\ store.tokens = { "t1" }
    /\ Len(store.schedules) > 0
    /\ store.playerSettings # DefaultSettings
    /\ store.adminPassword = "secret"

\* C40: after any sequence of settings-update requests the stored settings
\* have an integer brightness in 0..200, orientation landscape or portrait,
\* a boolean autoStart and both default durations whole seconds in 1..3600; a
\* request with no valid field changes nothing; an invalid field in an
\* otherwise valid request leaves that field unchanged.
C40_SettingsStayValid ==
    /\ store.playerSettings.brightness \in 0..200
    /\ store.playerSettings.orientation \in { "landscape", "portrait" }
    /\ store.playerSettings.autoStart \in BOOLEAN
    /\ \A f \in { "defaultImageDuration", "defaultLinkDuration" } :
          \E n \in 1..3600 : store.playerSettings[f] = Sec(n)
    /\ \A body \in SettingsBodies :
          LET st == PostSettings(store, body) IN
          /\ (\A f \in DOMAIN SettingsUpdates(body) : SettingsUpdates(body)[f] = << >>)
                => st = store
          /\ body.object =>
               \A f \in DOMAIN store.playerSettings :
                  (body[f] = << >> \/ SettingsUpdates(body)[f] = << >>)
                  => st.playerSettings[f] = store.playerSettings[f]

\* settings changed by requests that also carried invalid fields: brightness
\* 150.6 was rounded, portrait came with a brightness of 250, the link
\* duration 3600 with an image duration of 0.4
C40_Witness ==
    /\ store.playerSettings.brightness = 151
    /\ store.playerSettings.orientation = "portrait"
    /\ store.playerSettings.defaultLinkDuration = Sec(3600)
    /\ store.playerSettings.defaultImageDuration = Sec(10)

====
